---- MODULE Spec2Model ----
(***************************************************************************)
(* QR scan protocol of the event server: rotating / static student tokens, *)
(* the scanStudentQR handler of the volunteer controller, the students     *)
(* presence fields, the check_in_outs ledger and the volunteers' scan      *)
(* counter.  One action per await point of the handler, so that requests   *)
(* of different scanning stations interleave as they do on the server.     *)
(***************************************************************************)
EXTENDS Integers, Sequences, FiniteSets, TLC

VARIABLES now, students, check_in_outs, volunteers, req,
          toggleLog, tIssue, tVerify, tToken, tDecoded, tPhase, tResp,
          stalls, sReq, stallScans, events, event_permissions, eReq,
          event_managers, mReq, wReq, xReq, event_registrations, payCalls, feedbacks, feedback_totals, fReq, rankings, ranking_students, ranked_stalls, kReq

vars == <<now, students, check_in_outs, volunteers, req,
          toggleLog, tIssue, tVerify, tToken, tDecoded, tPhase, tResp,
          stalls, sReq, stallScans, events, event_permissions, eReq,
          event_managers, mReq, wReq, xReq, event_registrations, payCalls, feedbacks, feedback_totals, fReq, rankings, ranking_students, ranked_stalls, kReq>>

scanVars == <<now, students, check_in_outs, volunteers, req, toggleLog>>

tokVars == <<tIssue, tVerify, tToken, tDecoded, tPhase, tResp>>

stallVars == <<stalls, sReq, stallScans>>

eventVars == <<events, event_permissions, eReq>>

managerVars == <<event_managers, mReq>>

stallAdminVars == <<wReq>>

eventWriteVars == <<xReq>>

registrationVars == <<event_registrations, payCalls>>

feedbackVars == <<feedbacks, feedback_totals, fReq>>

rankingVars == <<rankings, ranking_students, ranked_stalls, kReq>>

\* the tables and requests of the other handlers
sideVars == <<managerVars, stallAdminVars, eventWriteVars, registrationVars, feedbackVars, rankingVars>>

sideButManager == <<stallAdminVars, eventWriteVars, registrationVars, feedbackVars, rankingVars>>

sideButStallAdmin == <<managerVars, eventWriteVars, registrationVars, feedbackVars, rankingVars>>

sideButEventWrite == <<managerVars, stallAdminVars, registrationVars, feedbackVars, rankingVars>>

sideButRegistration == <<managerVars, stallAdminVars, eventWriteVars, feedbackVars, rankingVars>>

sideButFeedback == <<managerVars, stallAdminVars, eventWriteVars, registrationVars, rankingVars>>

sideButRanking == <<managerVars, stallAdminVars, eventWriteVars, registrationVars, feedbackVars>>

(* ------------------------------ bounds --------------------------------- *)
\* scans that reach the toggle in one behaviour
MaxScans == 3
\* the server clock, in seconds, advances MaxTicks times by ClockStep
ClockStep == 90
MaxTicks == 1
\* window indexes the token specification draws its two clocks from
TokWindowLo == 97
TokWindowHi == 103
\* verifications of one stall's token in one behaviour; the clock of the stall
\* specification advances MaxStallTicks times by StallClockStep seconds
MaxStallScans == 3
StallClockStep == 86400
MaxStallTicks == 3

\* calls of completePayment in one behaviour
MaxPayCalls == 3

\* submitFeedback: max 200 per student
FeedbackLimit == 200

(* ----------------------------- the data -------------------------------- *)
NULL == -1

\* students.id of the provisioned students
StudentIds == {1, 2}
\* volunteers.id with a row in volunteers; OperatorIds also holds an id whose
\* JWT is still valid but whose row is gone
VolunteerIds == {1, 2}
OperatorIds == {1, 2, 3}
Requests == {"r1", "r2"}

\* students.registration_no of student s
RegNoOf(s) == 2000 + s
\* a registration number no row of students has
UnknownRegNo == 2000
RegNos == {RegNoOf(s) : s \in StudentIds} \cup {UnknownRegNo}

(* ------------------------- QRCodeService ------------------------------- *)
ROTATION_INTERVAL_SECONDS == 30
GRACE_PERIOD_WINDOWS == 2

ServerSecret == "server"
ForeignSecret == "foreign"
NoWindow == -1

\* time_window_index = floor(now / window_duration)
WindowIndex(t) == t \div ROTATION_INTERVAL_SECONDS

\* the signature binds the registration number and the window index under a key
Sign(key, reg, win) == [key |-> key, reg |-> reg, win |-> win]
NoSig == Sign("none", 0, NoWindow)

NoToken == [fmt |-> "none", registration_no |-> 0, sig |-> NoSig]
MalformedToken == [fmt |-> "garbage", registration_no |-> 0, sig |-> NoSig]

\* Issue: sign (registration_no, current window index)
generateRotatingStudentToken(reg, t) ==
    [fmt |-> "rotating", registration_no |-> reg,
     sig |-> Sign(ServerSecret, reg, WindowIndex(t))]

\* the legacy static student token: signed, no time component
generateStudentQRToken(reg) ==
    [fmt |-> "static", registration_no |-> reg,
     sig |-> Sign(ServerSecret, reg, NoWindow)]

Invalid(isStatic) ==
    [valid |-> FALSE, isStatic |-> isStatic, registration_no |-> 0]

\* Verify: the signature is checked against the window of t and
\* GRACE_PERIOD_WINDOWS windows before and after it
verifyRotatingStudentToken(tok, t) ==
    IF tok.fmt # "rotating" THEN Invalid(TRUE)
    ELSE IF \E off \in (0 - GRACE_PERIOD_WINDOWS)..GRACE_PERIOD_WINDOWS :
               tok.sig = Sign(ServerSecret, tok.registration_no, WindowIndex(t) + off)
         THEN [valid |-> TRUE, isStatic |-> FALSE,
               registration_no |-> tok.registration_no]
         ELSE Invalid(FALSE)

\* static verification: signature only
verifyStudentQRToken(tok) ==
    IF tok.fmt = "static"
       /\ tok.sig = Sign(ServerSecret, tok.registration_no, NoWindow)
    THEN [valid |-> TRUE, isStatic |-> TRUE, registration_no |-> tok.registration_no]
    ELSE Invalid(TRUE)

\* the grace period published as the sum of its two factors
GracePeriodSeconds_sum == GRACE_PERIOD_WINDOWS + ROTATION_INTERVAL_SECONDS

\* rotation_info.grace_period_seconds of getQRCode
GracePeriodSeconds == GRACE_PERIOD_WINDOWS * ROTATION_INTERVAL_SECONDS

\* the verdict tested as `if (!decoded)` only: any decoded object passes
VerifyChain_truthy(tok, t) ==
    LET rot == verifyRotatingStudentToken(tok, t)
        decoded == IF ~rot.valid /\ rot.isStatic
                   THEN verifyStudentQRToken(tok) ELSE rot
    IN [decoded EXCEPT !.valid = TRUE, !.registration_no = tok.registration_no]

\* scanStudentQR step 1: rotating first, static when the rotating verifier
\* says the token is not a rotating one
VerifyChain(tok, t) ==
    LET rot == verifyRotatingStudentToken(tok, t)
        decoded == IF ~rot.valid /\ rot.isStatic
                   THEN verifyStudentQRToken(tok) ELSE rot
    IN decoded

(* --------------------------- the handler ------------------------------- *)
IdleReq ==
    [pc |-> "idle", volunteer_id |-> 0, registration_no |-> 0, student_id |-> 0,
     isCurrentlyInside |-> FALSE, previousCheckInTime |-> NULL, action |-> "NONE",
     scan_number |-> 0, last_checkout_at |-> NULL, durationMinutes |-> 0,
     status |-> 0, respAction |-> "NONE", failedAt |-> "none"]

FreshStudent ==
    [is_inside_event |-> FALSE, last_checkin_at |-> NULL, last_checkout_at |-> NULL,
     total_scan_count |-> 0, total_active_duration_minutes |-> 0]

\* a row imported as inside the event with no check-in time
ImportedInside == [FreshStudent EXCEPT !.is_inside_event = TRUE]

\* what the verification steps of one scan have done so far: the verifiers
\* that ran, the registration number handed to the lookup, the student it
\* found, and the response
NoResp ==
    [ran |-> <<>>, lookup |-> 0, student_id |-> 0, status |-> 0, message |-> ""]

(* ------------------- stalls and their static tokens -------------------- *)
\* stalls.id of the stalls that get created; StallNumbers also holds the
\* number of a stall that has no row
StallIds == {1}
StallNumbers == {1, 2}
\* req.user.id of scanStall: ids of StudentIds and one without a students row
StallUsers == {1, 2, 3}

\* stall_name values of request bodies; NoName is an absent field
StallNames == {"n1", "n2"}
NoName == "undefined"

NoStall ==
    [exists |-> FALSE, qr_code_token |-> NoToken, created_at |-> NULL,
     stall_name |-> NoName]

\* the static signature: the stall under a key, no time component
StallSign(key, n) == [key |-> key, stall |-> n]

generateStallQRToken(n) ==
    [fmt |-> "stall", stall_number |-> n, sig |-> StallSign(ServerSecret, n)]

ForgedStallToken(n) ==
    [fmt |-> "stall", stall_number |-> n, sig |-> StallSign(ForeignSecret, n)]

\* static verification: format and signature, nothing else
verifyStallQRToken(tok) ==
    IF tok.fmt = "stall" /\ tok.sig = StallSign(ServerSecret, tok.stall_number)
    THEN [valid |-> TRUE, stall_number |-> tok.stall_number]
    ELSE [valid |-> FALSE, stall_number |-> 0]

\* the row Stall.create leaves: inserted, then its token saved unless the
\* generation threw
NewStall(i, name, qrOk, t) ==
    [exists |-> TRUE,
     qr_code_token |-> IF qrOk THEN generateStallQRToken(i) ELSE NoToken,
     created_at |-> t,
     stall_name |-> name]

IdleStallReq ==
    [pc |-> "idle", user |-> 0, token |-> NoToken, stall_id |-> 0,
     status |-> 0, message |-> "", already_reviewed |-> FALSE]

InitStall ==
    /\ stalls = [i \in StallIds |-> NoStall]
    /\ sReq = IdleStallReq
    /\ stallScans = [n \in StallNumbers |-> 0]

(* ----------------------- events and their review ----------------------- *)
EventIds == {1, 2}
\* the admin sessions whose requests interleave
EventRequests == {"a1", "a2"}
\* :id of the admin event routes: the events and an id no event has
EventTargets == {1, 2, 3}
AdminIds == {1, 2}

\* a request body string as its characters; Missing is an absent field
Missing == <<"undefined">>
EmptyString == <<>>
BlankString == <<" ", " ">>
ShortReason == <<"n", "o">>
PaddedReason == <<" ", "n", "o", " ">>
ReasonInputs == {Missing, EmptyString, BlankString, ShortReason, PaddedReason}

\* String.prototype.trim
RECURSIVE TrimLeft(_)
TrimLeft(str) ==
    IF str # <<>> /\ Head(str) = " " THEN TrimLeft(Tail(str)) ELSE str

RECURSIVE TrimRight(_)
TrimRight(str) ==
    IF str # <<>> /\ str[Len(str)] = " "
    THEN TrimRight(SubSeq(str, 1, Len(str) - 1)) ELSE str

Trim(str) == TrimRight(TrimLeft(str))

\* the query helper the controllers hand to the models as last argument
QueryFn == <<"query">>

\* ids the database gives to events created later
NewEventIds == {4, 5}
EventSlots == EventIds \cup NewEventIds

PendingEvent ==
    [status |-> "PENDING_APPROVAL", approved_by_admin_id |-> NULL,
     admin_rejection_reason |-> NULL, created_by_manager_id |-> 1,
     event_code |-> "c1", event_name |-> "e1", requires_approval |-> TRUE]

\* no row with this id
NoEvent ==
    [status |-> "NONE", approved_by_admin_id |-> NULL,
     admin_rejection_reason |-> NULL, created_by_manager_id |-> 0,
     event_code |-> "none", event_name |-> "none", requires_approval |-> FALSE]

IdleEventReq ==
    [pc |-> "idle", op |-> "none", user |-> 0, id |-> 0,
     rejection_reason |-> Missing, adminId |-> NULL, reason |-> NULL,
     status |-> 0, message |-> ""]

InitEvent ==
    /\ events = [e \in EventSlots |-> IF e \in EventIds THEN PendingEvent
                                                        ELSE NoEvent]
    /\ event_permissions = {}
    /\ eReq = [q \in EventRequests |-> IdleEventReq]

(* --------------------------- event managers ---------------------------- *)
ManagerIds == {1, 2}

\* Event.updateStatus accepts these
ValidStatuses ==
    {"DRAFT", "PENDING_APPROVAL", "APPROVED", "ACTIVE",
     "COMPLETED", "CANCELLED", "ARCHIVED"}

IdleManagerReq == [pc |-> "idle", id |-> 0, status |-> 0]

InitManager ==
    /\ event_managers = ManagerIds
    /\ mReq = IdleManagerReq

(* ---------------------- the stall write routes ------------------------- *)
\* req.user.role after authenticateToken; NoRole: no valid token
Roles == {"ADMIN", "STUDENT", "VOLUNTEER", "EVENT_MANAGER"}
NoRole == "none"

IdleWriteReq ==
    [pc |-> "idle", method |-> "none", role |-> NoRole, id |-> 0,
     stall_name |-> NoName, status |-> 0]

InitStallAdmin == wReq = IdleWriteReq

\* a field of a request body or of eventData that may be absent
Undefined == "undefined"

(* --------------- updateEvent / deleteEvent of a manager ---------------- *)
\* req.body of PUT /api/event-managers/events/:eventId
UpdateBodies ==
    [event_name : {Undefined, "e2"}, status : {Undefined, "DRAFT"},
     event_code : {Undefined, "c9"}, created_by_manager_id : {Undefined, "2"}]

NoBody ==
    [event_name |-> Undefined, status |-> Undefined, event_code |-> Undefined,
     created_by_manager_id |-> Undefined]

IdleEventWrite ==
    [pc |-> "idle", kind |-> "none", eventId |-> 0, managerId |-> 0,
     body |-> NoBody, event |-> NoEvent, status |-> 0, message |-> "none"]

InitEventWrite == xReq = IdleEventWrite

(* ------------------------ event_registrations -------------------------- *)
RegistrationIds == {1}
\* ids a caller can name: 2 has no row
RegistrationTargets == {1, 2}

\* paymentData of completePayment
PaymentData ==
    {[razorpay_payment_id |-> "p1", razorpay_signature |-> "g1"],
     [razorpay_payment_id |-> "p2", razorpay_signature |-> "g2"]}

NoRegistration ==
    [event_id |-> 0, payment_status |-> "NONE", registration_status |-> "NONE",
     razorpay_payment_id |-> "null", razorpay_signature |-> "null",
     payment_completed_at |-> NULL]

InitRegistration ==
    /\ event_registrations = [r \in RegistrationIds |-> NoRegistration]
    /\ payCalls = <<>>

(* ------------------ feedback and school ranking ------------------------ *)
\* stalls.id of the seeded stalls: 11, 12, 13 of school 1, 14 of school 2
SeededStallIds == {11, 12, 13, 14}
\* a stall id with no row
MissingStallId == 99
SchoolOf(s) == IF s = 14 THEN 2 ELSE 1

\* users a token can name: 3 has no students row
FeedbackUsers == StudentIds \cup {3}
FeedbackRequests == {"f1", "f2"}
\* stall_id and rating of a submit-feedback body; 0 stands for a missing field
FeedbackStallInputs == {0, 11, 12, MissingStallId}
RatingInputs == {0, 4, 6}

\* feedback records student u gave earlier to stalls other than the seeded ones
EarlierFeedback(u) == IF u = 2 THEN FeedbackLimit - 1 ELSE 0

IdleFeedbackReq ==
    [pc |-> "idle", user |-> 0, stall_id |-> 0, rating |-> 0,
     feedbackCount |-> 0, status |-> 0]

InitFeedback ==
    /\ feedbacks = [u \in StudentIds |-> [s \in SeededStallIds |-> 0]]
    /\ feedback_totals = [student |-> [u \in StudentIds |-> EarlierFeedback(u)],
                          stall |-> [s \in SeededStallIds |-> 0]]
    /\ fReq = [r \in FeedbackRequests |-> IdleFeedbackReq]

RankingRequests == {"k1", "k2"}

Ranked(a, b, c) ==
    <<[stall_id |-> a[1], rank |-> a[2]], [stall_id |-> b[1], rank |-> b[2]],
      [stall_id |-> c[1], rank |-> c[2]]>>

\* req.body.rankings of a submit-school-ranking request
RankingBodies ==
    {Ranked(<<11, 1>>, <<12, 2>>, <<13, 3>>),
     Ranked(<<12, 1>>, <<13, 2>>, <<11, 3>>),
     Ranked(<<11, 1>>, <<12, 1>>, <<13, 3>>),
     Ranked(<<11, 1>>, <<11, 2>>, <<13, 3>>),
     Ranked(<<11, 1>>, <<12, 2>>, <<14, 3>>),
     Ranked(<<11, 1>>, <<12, 2>>, <<MissingStallId, 3>>),
     <<[stall_id |-> 11, rank |-> 1], [stall_id |-> 12, rank |-> 2]>>}

IdleRankingReq == [pc |-> "idle", user |-> 0, rankings |-> <<>>, status |-> 0]

InitRanking ==
    /\ rankings = [u \in StudentIds |->
                     [s \in SeededStallIds |-> [k \in 1..3 |-> 0]]]
    /\ ranking_students = [u \in StudentIds |->
                             [has_completed_ranking |-> FALSE, school_id |-> 1]]
    /\ ranked_stalls = [s \in SeededStallIds |->
                          [school_id |-> SchoolOf(s), rank_1_votes |-> 0,
                           rank_2_votes |-> 0, rank_3_votes |-> 0,
                           weighted_score |-> 0]]
    /\ kReq = [r \in RankingRequests |-> IdleRankingReq]

InitSide ==
    /\ InitManager
    /\ InitStallAdmin
    /\ InitEventWrite
    /\ InitRegistration
    /\ InitFeedback
    /\ InitRanking

TokIdle ==
    /\ tIssue = 0
    /\ tVerify = 0
    /\ tToken = NoToken
    /\ tDecoded = Invalid(FALSE)
    /\ tPhase = "input"
    /\ tResp = NoResp

InitScan ==
    /\ now = 0
    /\ students = [s \in StudentIds |-> IF s = 1 THEN FreshStudent ELSE ImportedInside]
    /\ check_in_outs = {}
    /\ volunteers = [v \in VolunteerIds |->
                        [is_active |-> (v = 1), total_scans_performed |-> 0]]
    /\ req = [r \in Requests |-> IdleReq]
    /\ toggleLog = [s \in StudentIds |-> <<>>]
    /\ InitStall
    /\ InitEvent
    /\ InitSide

Init == InitScan /\ TokIdle

\* the server clock
Tick ==
    /\ now + ClockStep <= MaxTicks * ClockStep
    /\ now' = now + ClockStep
    /\ UNCHANGED <<students, check_in_outs, volunteers, req, toggleLog, tokVars, stallVars, eventVars, sideVars>>

\* the clock values reached so far
PastTimes == {t \in 0..now : t % ClockStep = 0}

\* what a scanning station can present: a rotating token getQRCode returned
\* to a student at some time up to now, no token, garbage, a static student
\* token, or a token signed with another key
PresentableTokens ==
    {generateRotatingStudentToken(g, t) : g \in RegNos, t \in PastTimes}
      \cup {NoToken, MalformedToken}
      \cup {generateStudentQRToken(g) : g \in RegNos}
      \cup {[fmt |-> "rotating", registration_no |-> RegNoOf(s),
             sig |-> Sign(ForeignSecret, RegNoOf(s), WindowIndex(now))] : s \in StudentIds}
      \cup {[fmt |-> "static", registration_no |-> RegNoOf(s),
             sig |-> Sign(ForeignSecret, RegNoOf(s), NoWindow)] : s \in StudentIds}

\* scans that toggled, and scans on their way to the toggle
Toggled == Len(toggleLog[1]) + Len(toggleLog[2])
InFlight == Cardinality({r \in Requests : req[r].pc \in {"find", "volunteer", "toggle"}})

\* the handler returns: what the station receives (failedAt names the step
\* that ended the request)
Respond(status, act, dur, at) ==
    [IdleReq EXCEPT !.pc = "done", !.status = status, !.respAction = act,
                    !.durationMinutes = dur, !.failedAt = at]

\* a token refused once a scan of its student has toggled
Begin_singleUse(r, v, tok) ==
    /\ req[r].pc = "idle"
    /\ Toggled + InFlight < MaxScans
    /\ LET decoded == VerifyChain(tok, now)
           r0 == [req[r] EXCEPT !.volunteer_id = v]
           used == \E s \in StudentIds :
                      RegNoOf(s) = tok.registration_no /\ Len(toggleLog[s]) > 0
       IN req' = [req EXCEPT ![r] =
                    IF tok = NoToken
                    THEN Respond(400, "NONE", 0, "token")
                    ELSE IF ~decoded.valid \/ used
                    THEN Respond(400, "NONE", 0, "verify")
                    ELSE [r0 EXCEPT !.pc = "find",
                                    !.registration_no = decoded.registration_no]]
    /\ UNCHANGED <<now, students, check_in_outs, volunteers, toggleLog, tokVars, stallVars, eventVars, sideVars>>

\* scanStudentQR, up to the token verdict
Begin(r, v, tok) ==
    /\ req[r].pc = "idle"
    /\ Toggled + InFlight < MaxScans
    /\ LET decoded == VerifyChain(tok, now)
           r0 == [req[r] EXCEPT !.volunteer_id = v]
       IN req' = [req EXCEPT ![r] =
                    IF tok = NoToken
                    THEN Respond(400, "NONE", 0, "token")
                    ELSE IF ~decoded.valid
                    THEN Respond(400, "NONE", 0, "verify")
                    ELSE [r0 EXCEPT !.pc = "find",
                                    !.registration_no = decoded.registration_no]]
    /\ UNCHANGED <<now, students, check_in_outs, volunteers, toggleLog, tokVars, stallVars, eventVars, sideVars>>

\* Student.findByRegistrationNo
FindStudent(r) ==
    /\ req[r].pc = "find"
    /\ LET found == {s \in StudentIds : RegNoOf(s) = req[r].registration_no}
       IN req' = [req EXCEPT ![r] =
                    IF found = {}
                    THEN Respond(404, "NONE", 0, "find")
                    ELSE LET s == CHOOSE x \in found : TRUE
                         IN [req[r] EXCEPT
                               !.pc = "volunteer",
                               !.student_id = s,
                               !.isCurrentlyInside = students[s].is_inside_event,
                               !.previousCheckInTime = students[s].last_checkin_at]]
    /\ UNCHANGED <<now, students, check_in_outs, volunteers, toggleLog, tokVars, stallVars, eventVars, sideVars>>

\* the action decided the wrong way round
CheckVolunteer_inverted(r) ==
    /\ req[r].pc = "volunteer"
    /\ LET v == req[r].volunteer_id
           exists == v \in VolunteerIds
       IN req' = [req EXCEPT ![r] =
                    IF exists /\ ~volunteers[v].is_active
                    THEN Respond(403, "NONE", 0, "volunteer")
                    ELSE [req[r] EXCEPT
                            !.pc = "toggle",
                            !.action = IF req[r].isCurrentlyInside
                                       THEN "ENTRY" ELSE "EXIT"]]
    /\ UNCHANGED <<now, students, check_in_outs, volunteers, toggleLog, tokVars, stallVars, eventVars, sideVars>>

\* the operator's scan counter incremented before the is_active check
CheckVolunteer_counts(r) ==
    /\ req[r].pc = "volunteer"
    /\ LET v == req[r].volunteer_id
           exists == v \in VolunteerIds
       IN /\ volunteers' = IF exists
                           THEN [volunteers EXCEPT ![v].total_scans_performed = @ + 1]
                           ELSE volunteers
          /\ req' = [req EXCEPT ![r] =
                       IF exists /\ ~volunteers[v].is_active
                       THEN Respond(403, "NONE", 0, "volunteer")
                       ELSE [req[r] EXCEPT
                               !.pc = "toggle",
                               !.action = IF req[r].isCurrentlyInside
                                          THEN "EXIT" ELSE "ENTRY"]]
    /\ UNCHANGED <<now, students, check_in_outs, toggleLog, tokVars, stallVars, eventVars, sideVars>>

\* Volunteer.findById, the is_active check, and the decision of the action
CheckVolunteer(r) ==
    /\ req[r].pc = "volunteer"
    /\ LET v == req[r].volunteer_id
           exists == v \in VolunteerIds
       IN req' = [req EXCEPT ![r] =
                    IF exists /\ ~volunteers[v].is_active
                    THEN Respond(403, "NONE", 0, "volunteer")
                    ELSE [req[r] EXCEPT
                            !.pc = "toggle",
                            !.action = IF req[r].isCurrentlyInside
                                       THEN "EXIT" ELSE "ENTRY"]]
    /\ UNCHANGED <<now, students, check_in_outs, volunteers, toggleLog, tokVars, stallVars, eventVars, sideVars>>

\* Student.processCheckInOut: one atomic read-flip-write of the student row
processCheckInOut(row, t) ==
    IF row.is_inside_event
    THEN [row EXCEPT !.is_inside_event = FALSE,
                     !.last_checkout_at = t,
                     !.total_scan_count = @ + 1]
    ELSE [row EXCEPT !.is_inside_event = TRUE,
                     !.last_checkin_at = t,
                     !.total_scan_count = @ + 1]

\* the toggle's UPDATE without its WHERE id: every row of students flipped
Toggle_allRows(r) ==
    /\ req[r].pc = "toggle"
    /\ LET s == req[r].student_id
           updatedStudent == processCheckInOut(students[s], now)
       IN /\ students' = [x \in StudentIds |-> processCheckInOut(students[x], now)]
          /\ req' = [req EXCEPT ![r] =
                       [req[r] EXCEPT
                          !.pc = "ledger",
                          !.scan_number = updatedStudent.total_scan_count,
                          !.last_checkout_at = updatedStudent.last_checkout_at]]
          /\ toggleLog' = [toggleLog EXCEPT ![s] =
                             Append(@, [told |-> req[r].action,
                                        was_inside |-> students[s].is_inside_event,
                                        entry_before |-> students[s].last_checkin_at,
                                        at |-> now])]
    /\ UNCHANGED <<now, check_in_outs, volunteers, tokVars, stallVars, eventVars, sideVars>>

\* a toggle that writes the opposite of the row the controller read earlier
\* instead of flipping the row it locks
Toggle_fromSnapshot(r) ==
    /\ req[r].pc = "toggle"
    /\ LET s == req[r].student_id
           row == students[s]
           updatedStudent ==
               IF req[r].isCurrentlyInside
               THEN [row EXCEPT !.is_inside_event = FALSE,
                                !.last_checkout_at = now,
                                !.total_scan_count = @ + 1]
               ELSE [row EXCEPT !.is_inside_event = TRUE,
                                !.last_checkin_at = now,
                                !.total_scan_count = @ + 1]
       IN /\ students' = [students EXCEPT ![s] = updatedStudent]
          /\ req' = [req EXCEPT ![r] =
                       [req[r] EXCEPT
                          !.pc = "ledger",
                          !.scan_number = updatedStudent.total_scan_count,
                          !.last_checkout_at = updatedStudent.last_checkout_at]]
          /\ toggleLog' = [toggleLog EXCEPT ![s] =
                             Append(@, [told |-> req[r].action,
                                        was_inside |-> students[s].is_inside_event,
                                        entry_before |-> students[s].last_checkin_at,
                                        at |-> now])]
    /\ UNCHANGED <<now, check_in_outs, volunteers, tokVars, stallVars, eventVars, sideVars>>

Toggle(r) ==
    /\ req[r].pc = "toggle"
    /\ LET s == req[r].student_id
           updatedStudent == processCheckInOut(students[s], now)
       IN /\ students' = [students EXCEPT ![s] = updatedStudent]
          /\ req' = [req EXCEPT ![r] =
                       [req[r] EXCEPT
                          !.pc = "ledger",
                          !.scan_number = updatedStudent.total_scan_count,
                          !.last_checkout_at = updatedStudent.last_checkout_at]]
          /\ toggleLog' = [toggleLog EXCEPT ![s] =
                             Append(@, [told |-> req[r].action,
                                        was_inside |-> students[s].is_inside_event,
                                        entry_before |-> students[s].last_checkin_at,
                                        at |-> now])]
    /\ UNCHANGED <<now, check_in_outs, volunteers, tokVars, stallVars, eventVars, sideVars>>

\* Math.floor((checkOutTime - checkInTime) / (1000 * 60)), times in seconds
DurationMinutes(checkOutTime, checkInTime) == (checkOutTime - checkInTime) \div 60

\* CheckInOut.create
CheckInOutCreate(s, v, type, n, d) ==
    check_in_outs \cup
        {[student_id |-> s, volunteer_id |-> v, scan_type |-> type,
          scan_number |-> n, duration_minutes |-> d]}

\* the ledger branch of scanStudentQR
WriteLedger(r) ==
    /\ req[r].pc = "ledger"
    /\ LET q == req[r]
           d == DurationMinutes(q.last_checkout_at, q.previousCheckInTime)
       IN IF q.action = "ENTRY"
          THEN /\ check_in_outs' = CheckInOutCreate(q.student_id, q.volunteer_id,
                                                    "CHECKIN", q.scan_number, NULL)
               /\ req' = [req EXCEPT ![r].pc = "counter"]
          ELSE IF q.action = "EXIT" /\ q.previousCheckInTime # NULL
          THEN /\ check_in_outs' = CheckInOutCreate(q.student_id, q.volunteer_id,
                                                    "CHECKOUT", q.scan_number, d)
               /\ req' = [req EXCEPT ![r].pc = "duration",
                                     ![r].durationMinutes = d]
          ELSE /\ check_in_outs' = check_in_outs
               /\ req' = [req EXCEPT ![r].pc = "counter"]
    /\ UNCHANGED <<now, students, volunteers, toggleLog, tokVars, stallVars, eventVars, sideVars>>

\* Student.updateActiveDuration
UpdateActiveDuration(r) ==
    /\ req[r].pc = "duration"
    /\ students' = [students EXCEPT
                      ![req[r].student_id].total_active_duration_minutes =
                          @ + req[r].durationMinutes]
    /\ req' = [req EXCEPT ![r].pc = "counter"]
    /\ UNCHANGED <<now, check_in_outs, volunteers, toggleLog,
                   tokVars, stallVars, eventVars, sideVars>>

\* UPDATE volunteers SET total_scans_performed = total_scans_performed + 1,
\* then the success response
UpdateScanCount(r) ==
    /\ req[r].pc = "counter"
    /\ LET v == req[r].volunteer_id
       IN volunteers' = IF v \in VolunteerIds
                        THEN [volunteers EXCEPT ![v].total_scans_performed = @ + 1]
                        ELSE volunteers
    /\ req' = [req EXCEPT ![r] =
                 Respond(IF req[r].action = "ENTRY" THEN 201 ELSE 200,
                         req[r].action, req[r].durationMinutes, "none")]
    /\ UNCHANGED <<now, students, check_in_outs, toggleLog,
                   tokVars, stallVars, eventVars, sideVars>>

\* an awaited query rejects: catch (error) { next(error) }
AwaitPcs == {"find", "volunteer", "toggle", "ledger", "duration", "counter"}

\* the request is at an await: the ledger step awaits nothing for an EXIT
\* without a previous check-in time
Awaiting(r) ==
    /\ req[r].pc \in AwaitPcs
    /\ ~(req[r].pc = "ledger" /\ req[r].action = "EXIT"
          /\ req[r].previousCheckInTime = NULL)

\* a catch block that undoes the toggle when a later query rejects
QueryFails_rollback(r) ==
    /\ Awaiting(r)
    /\ req' = [req EXCEPT ![r] = Respond(500, "NONE", 0, req[r].pc)]
    /\ students' =
         IF req[r].pc \in {"ledger", "duration", "counter"}
         THEN [students EXCEPT
                 ![req[r].student_id].is_inside_event = ~@,
                 ![req[r].student_id].total_scan_count = @ - 1]
         ELSE students
    /\ UNCHANGED <<now, check_in_outs, volunteers, toggleLog, tokVars, stallVars, eventVars, sideVars>>

QueryFails(r) ==
    /\ Awaiting(r)
    /\ req' = [req EXCEPT ![r] = Respond(500, "NONE", 0, req[r].pc)]
    /\ UNCHANGED <<now, students, check_in_outs, volunteers, toggleLog, tokVars, stallVars, eventVars, sideVars>>

\* the response is sent; the station may scan again
Finish(r) ==
    /\ req[r].pc = "done"
    /\ req' = [req EXCEPT ![r] = IdleReq]
    /\ UNCHANGED <<now, students, check_in_outs, volunteers, toggleLog, tokVars, stallVars, eventVars, sideVars>>

\* the steps of a request whose awaited queries all resolve
Proceed(r) ==
    \/ FindStudent(r)
    \/ CheckVolunteer(r)
    \/ Toggle(r)
    \/ WriteLedger(r)
    \/ UpdateActiveDuration(r)
    \/ UpdateScanCount(r)
    \/ Finish(r)

Step(r) ==
    \/ \E v \in OperatorIds, tok \in PresentableTokens : Begin(r, v, tok)
    \/ Proceed(r)
    \/ QueryFails(r)

Next ==
    \/ Tick
    \/ \E r \in Requests : Step(r)

Spec == Init /\ [][Next]_vars

(* --------------- scans processed one after another --------------------- *)
NextSeq ==
    \/ Tick
    \/ Step("r1")

SpecSeq == Init /\ [][NextSeq]_vars

(* ------------- the rotating token on its own, two clocks --------------- *)
\* the issuing clock and the verifying clock, one second apart at the least
TokTimes ==
    (TokWindowLo * ROTATION_INTERVAL_SECONDS) ..
        ((TokWindowHi + 1) * ROTATION_INTERVAL_SECONDS - 1)

InitTok ==
    /\ InitScan
    /\ tIssue \in TokTimes
    /\ tVerify \in TokTimes
    /\ tToken = NoToken
    /\ tDecoded = Invalid(FALSE)
    /\ tPhase = "input"
    /\ tResp = NoResp

\* getQRCode at issuing time tIssue
GetQRCode(s) ==
    /\ tPhase = "input"
    /\ tToken' = generateRotatingStudentToken(RegNoOf(s), tIssue)
    /\ tPhase' = "issued"
    /\ UNCHANGED <<scanVars, stallVars, eventVars, tIssue, tVerify, tDecoded, tResp, sideVars>>

\* scanStudentQR step 1 at verifying time tVerify
ScanVerify ==
    /\ tPhase = "issued"
    /\ tDecoded' = VerifyChain(tToken, tVerify)
    /\ tPhase' = "verified"
    /\ UNCHANGED <<scanVars, stallVars, eventVars, tIssue, tVerify, tToken, tResp, sideVars>>

NextTok ==
    \/ \E s \in StudentIds : GetQRCode(s)
    \/ ScanVerify

SpecToken == InitTok /\ [][NextTok]_vars

(* ------- one displayed token, scanned again and again by stations ------ *)
\* every volunteer account active
InitReplay ==
    /\ now = 0
    /\ students = [s \in StudentIds |-> IF s = 1 THEN FreshStudent ELSE ImportedInside]
    /\ check_in_outs = {}
    /\ volunteers = [v \in VolunteerIds |->
                        [is_active |-> TRUE, total_scans_performed |-> 0]]
    /\ req = [r \in Requests |-> IdleReq]
    /\ toggleLog = [s \in StudentIds |-> <<>>]
    /\ InitStall
    /\ InitEvent
    /\ InitSide
    /\ TokIdle

\* getQRCode at the server clock: the student's phone shows the token
ShowQRCode(s) ==
    /\ tPhase = "input"
    /\ tIssue' = now
    /\ tToken' = generateRotatingStudentToken(RegNoOf(s), now)
    /\ tPhase' = "issued"
    /\ UNCHANGED <<scanVars, stallVars, eventVars, tVerify, tDecoded, tResp, sideVars>>

\* a station scans the token the phone shows
BeginShown(r, v) ==
    /\ tPhase = "issued"
    /\ Begin(r, v, tToken)

NextReplay ==
    \/ Tick
    \/ \E s \in StudentIds : ShowQRCode(s)
    \/ \E r \in Requests, v \in VolunteerIds : BeginShown(r, v)
    \/ \E r \in Requests : Proceed(r)

SpecReplay == InitReplay /\ [][NextReplay]_vars

(* ------- two stations, each scanning the tokens of its own student ----- *)
\* the student whose tokens station r scans
OwnStudent(r) == IF r = "r1" THEN 1 ELSE 2

\* what station r presents: any token that does not name another student
OwnTokens(r) ==
    {tok \in PresentableTokens :
        \A s \in StudentIds \ {OwnStudent(r)} : tok.registration_no # RegNoOf(s)}

BeginOwn(r) ==
    \E v \in OperatorIds, tok \in OwnTokens(r) : Begin(r, v, tok)

NextDistinct ==
    \/ Tick
    \/ \E r \in Requests : BeginOwn(r)
    \/ \E r \in Requests : Proceed(r)
    \/ \E r \in Requests : QueryFails(r)

SpecDistinct == Init /\ [][NextDistinct]_vars

(* ------------ the verification steps of one scan, one by one ----------- *)
\* a well-formed token signed with another key
ForgedRotating(reg, t) ==
    [fmt |-> "rotating", registration_no |-> reg,
     sig |-> Sign(ForeignSecret, reg, WindowIndex(t))]

ForgedStatic(reg) ==
    [fmt |-> "static", registration_no |-> reg,
     sig |-> Sign(ForeignSecret, reg, NoWindow)]

\* every kind of token a station can send, the rotating ones issued at t
ChainTokens(t) ==
    {generateRotatingStudentToken(g, t) : g \in RegNos}
      \cup {generateStudentQRToken(g) : g \in RegNos}
      \cup {ForgedRotating(g, t) : g \in RegNos}
      \cup {ForgedStatic(g) : g \in RegNos}
      \cup {NoToken, MalformedToken}

\* the issuing clock at the start of a window, the verifying clock anywhere
InitChain ==
    /\ InitScan
    /\ tIssue \in {w * ROTATION_INTERVAL_SECONDS : w \in TokWindowLo..TokWindowHi}
    /\ tVerify \in TokTimes
    /\ tToken \in ChainTokens(tIssue)
    /\ tDecoded = Invalid(FALSE)
    /\ tPhase = "input"
    /\ tResp = NoResp

errorResponse(message, status) ==
    [tResp EXCEPT !.status = status, !.message = message]

\* if (!qr_code_token) return 400; decoded = verifyRotatingStudentToken(token)
ChainRotating ==
    /\ tPhase = "input"
    /\ IF tToken = NoToken
       THEN /\ tResp' = errorResponse("QR code token is required", 400)
            /\ tPhase' = "answered"
            /\ UNCHANGED tDecoded
       ELSE /\ tDecoded' = verifyRotatingStudentToken(tToken, tVerify)
            /\ tResp' = [tResp EXCEPT !.ran = Append(@, "rotating")]
            /\ tPhase' = "rotated"
    /\ UNCHANGED <<scanVars, stallVars, eventVars, tIssue, tVerify, tToken, sideVars>>

\* the static verifier run on every token, its verdict replacing the
\* rotating one
ChainStatic_always ==
    /\ tPhase = "rotated"
    /\ tDecoded' = verifyStudentQRToken(tToken)
    /\ tResp' = [tResp EXCEPT !.ran = Append(@, "static")]
    /\ tPhase' = "decoded"
    /\ UNCHANGED <<scanVars, stallVars, eventVars, tIssue, tVerify, tToken, sideVars>>

\* if (!decoded.valid && decoded.isStatic) decoded = verifyStudentQRToken(token)
ChainStatic ==
    /\ tPhase = "rotated"
    /\ IF ~tDecoded.valid /\ tDecoded.isStatic
       THEN /\ tDecoded' = verifyStudentQRToken(tToken)
            /\ tResp' = [tResp EXCEPT !.ran = Append(@, "static")]
       ELSE UNCHANGED <<tDecoded, tResp>>
    /\ tPhase' = "decoded"
    /\ UNCHANGED <<scanVars, stallVars, eventVars, tIssue, tVerify, tToken, sideVars>>

\* a verdict whose message tells a token of the wrong format from one whose
\* signature matched no window
ChainVerdict_leaky ==
    /\ tPhase = "decoded"
    /\ IF ~tDecoded.valid
       THEN /\ tResp' = errorResponse(IF tDecoded.isStatic
                                      THEN "Invalid QR code format"
                                      ELSE "QR code expired", 400)
            /\ tPhase' = "answered"
       ELSE /\ tResp' = [tResp EXCEPT !.lookup = tDecoded.registration_no]
            /\ tPhase' = "lookup"
    /\ UNCHANGED <<scanVars, stallVars, eventVars, tIssue, tVerify, tToken, tDecoded, sideVars>>

\* if (!decoded || !decoded.valid) return 400 'Invalid QR code'
ChainVerdict ==
    /\ tPhase = "decoded"
    /\ IF ~tDecoded.valid
       THEN /\ tResp' = errorResponse("Invalid QR code", 400)
            /\ tPhase' = "answered"
       ELSE /\ tResp' = [tResp EXCEPT !.lookup = tDecoded.registration_no]
            /\ tPhase' = "lookup"
    /\ UNCHANGED <<scanVars, stallVars, eventVars, tIssue, tVerify, tToken, tDecoded, sideVars>>

\* Student.findByRegistrationNo(decoded.registration_no), 404 when no row
ChainFind ==
    /\ tPhase = "lookup"
    /\ LET found == {s \in StudentIds : RegNoOf(s) = tResp.lookup}
       IN tResp' = IF found = {}
                   THEN errorResponse("Student not found", 404)
                   ELSE [tResp EXCEPT !.student_id = CHOOSE x \in found : TRUE]
    /\ tPhase' = "answered"
    /\ UNCHANGED <<scanVars, stallVars, eventVars, tIssue, tVerify, tToken, tDecoded, sideVars>>

NextChain ==
    \/ ChainRotating
    \/ ChainStatic
    \/ ChainVerdict
    \/ ChainFind

SpecChain == InitChain /\ [][NextChain]_vars

(* --------------- scanStall: the static token of a stall ---------------- *)
\* the server clock, in days
Later ==
    /\ now + StallClockStep <= MaxStallTicks * StallClockStep
    /\ now' = now + StallClockStep
    /\ UNCHANGED <<students, check_in_outs, volunteers, req, toggleLog,
                   tokVars, stallVars, eventVars, sideVars>>

\* Stall.create: the row, then the token generated once and saved with it;
\* when the generation throws the stall stays without a token
CreateStall(i, qrOk) ==
    /\ ~stalls[i].exists
    /\ stalls' = [stalls EXCEPT ![i] = NewStall(i, "n1", qrOk, now)]
    /\ UNCHANGED <<scanVars, tokVars, sReq, stallScans, eventVars, sideVars>>

\* what a student's phone can send as stall_qr_token
StallTokens ==
    {generateStallQRToken(n) : n \in StallNumbers}
      \cup {ForgedStallToken(n) : n \in StallIds}
      \cup {NoToken, MalformedToken, generateStudentQRToken(RegNoOf(1))}

StallRespond(status, message) ==
    [IdleStallReq EXCEPT !.pc = "done", !.token = sReq.token,
                         !.status = status, !.message = message]

\* verifications of this token that passed so far
VerifiedBefore(tok) ==
    IF verifyStallQRToken(tok).valid
    THEN stallScans[verifyStallQRToken(tok).stall_number] ELSE 0

\* a verifier that refuses a stall's token once the stall is older than the
\* grace period of the rotating tokens
ScanStall_expiring(u, tok) ==
    /\ sReq.pc = "idle"
    /\ VerifiedBefore(tok) < MaxStallScans
    /\ LET stallDecoded == verifyStallQRToken(tok)
           r0 == [IdleStallReq EXCEPT !.user = u, !.token = tok]
           aged == \E i \in StallIds :
                      /\ stalls[i].qr_code_token = tok
                      /\ now - stalls[i].created_at > GracePeriodSeconds
       IN IF tok = NoToken
          THEN /\ sReq' = [r0 EXCEPT !.pc = "done", !.status = 400,
                                     !.message = "Stall QR code is required"]
               /\ UNCHANGED stallScans
          ELSE IF ~stallDecoded.valid \/ aged
          THEN /\ sReq' = [r0 EXCEPT !.pc = "done", !.status = 400,
                                     !.message = "Invalid stall QR code"]
               /\ UNCHANGED stallScans
          ELSE /\ sReq' = [r0 EXCEPT !.pc = "findStall"]
               /\ stallScans' = [stallScans EXCEPT
                                   ![stallDecoded.stall_number] = @ + 1]
    /\ UNCHANGED <<scanVars, tokVars, stalls, eventVars, sideVars>>

\* scanStall up to the verdict of verifyStallQRToken
ScanStall(u, tok) ==
    /\ sReq.pc = "idle"
    /\ VerifiedBefore(tok) < MaxStallScans
    /\ LET stallDecoded == verifyStallQRToken(tok)
           r0 == [IdleStallReq EXCEPT !.user = u, !.token = tok]
       IN IF tok = NoToken
          THEN /\ sReq' = [r0 EXCEPT !.pc = "done", !.status = 400,
                                     !.message = "Stall QR code is required"]
               /\ UNCHANGED stallScans
          ELSE IF ~stallDecoded.valid
          THEN /\ sReq' = [r0 EXCEPT !.pc = "done", !.status = 400,
                                     !.message = "Invalid stall QR code"]
               /\ UNCHANGED stallScans
          ELSE /\ sReq' = [r0 EXCEPT !.pc = "findStall"]
               /\ stallScans' = [stallScans EXCEPT
                                   ![stallDecoded.stall_number] = @ + 1]
    /\ UNCHANGED <<scanVars, tokVars, stalls, eventVars, sideVars>>

\* Stall.findByQRToken: WHERE s.qr_code_token = $1 LIMIT 1
findByQRToken(tok) ==
    {i \in StallIds : stalls[i].exists /\ stalls[i].qr_code_token = tok}

ScanStallFindStall ==
    /\ sReq.pc = "findStall"
    /\ LET found == findByQRToken(sReq.token)
       IN sReq' = IF found = {}
                  THEN StallRespond(404, "Stall not found")
                  ELSE [sReq EXCEPT !.pc = "findStudent",
                                    !.stall_id = CHOOSE i \in found : TRUE]
    /\ UNCHANGED <<scanVars, tokVars, stalls, stallScans, eventVars, sideVars>>

\* Student.findById and the is_inside_event check
ScanStallFindStudent ==
    /\ sReq.pc = "findStudent"
    /\ sReq' = IF sReq.user \notin StudentIds
               THEN StallRespond(404, "Student not found. Please login again.")
               ELSE IF ~students[sReq.user].is_inside_event
               THEN StallRespond(403,
                        "You must be checked in at the event to scan stalls")
               ELSE [sReq EXCEPT !.pc = "feedback"]
    /\ UNCHANGED <<scanVars, tokVars, stalls, stallScans, eventVars, sideVars>>

\* Feedback.findByStudentAndStall and the success response
ScanStallFeedback ==
    /\ sReq.pc = "feedback"
    /\ \E existing \in BOOLEAN :
          sReq' = [StallRespond(200, "Stall scanned successfully") EXCEPT
                      !.stall_id = sReq.stall_id, !.already_reviewed = existing]
    /\ UNCHANGED <<scanVars, tokVars, stalls, stallScans, eventVars, sideVars>>

\* an awaited query of scanStall rejects: next(error)
ScanStallFails ==
    /\ sReq.pc \in {"findStall", "findStudent", "feedback"}
    /\ sReq' = StallRespond(500, "Internal server error")
    /\ UNCHANGED <<scanVars, tokVars, stalls, stallScans, eventVars, sideVars>>

ScanStallFinish ==
    /\ sReq.pc = "done"
    /\ sReq' = IdleStallReq
    /\ UNCHANGED <<scanVars, tokVars, stalls, stallScans, eventVars, sideVars>>

NextStall ==
    \/ Later
    \/ \E i \in StallIds, qrOk \in BOOLEAN : CreateStall(i, qrOk)
    \/ \E u \in StallUsers, tok \in StallTokens : ScanStall(u, tok)
    \/ ScanStallFindStall
    \/ ScanStallFindStudent
    \/ ScanStallFeedback
    \/ ScanStallFails
    \/ ScanStallFinish

SpecStall == Init /\ [][NextStall]_vars

(* ------------- the admin's decision on a pending event ----------------- *)
EventRespond(q, status, message) ==
    [eReq[q] EXCEPT !.pc = "done", !.status = status, !.message = message]

\* approveEvent: Event.approveByAdmin(id, adminId, query)
ApproveEvent(q, a, id) ==
    /\ eReq[q].pc = "idle"
    /\ eReq' = [eReq EXCEPT ![q] =
                  [IdleEventReq EXCEPT !.pc = "update", !.op = "approve",
                                       !.user = a, !.id = id, !.adminId = a]]
    /\ UNCHANGED <<scanVars, tokVars, stallVars, events, event_permissions, sideVars>>

\* rejectEvent: the reason check, then
\* Event.rejectByAdmin(id, rejection_reason, query), whose parameters are
\* (eventId, adminId, reason)
RejectEvent(q, a, id, rejection_reason) ==
    /\ eReq[q].pc = "idle"
    /\ LET r0 == [IdleEventReq EXCEPT !.op = "reject", !.user = a, !.id = id,
                                      !.rejection_reason = rejection_reason]
       IN eReq' = [eReq EXCEPT ![q] =
            IF rejection_reason \in {Missing, EmptyString}
               \/ Len(Trim(rejection_reason)) = 0
            THEN [r0 EXCEPT !.pc = "done", !.status = 400,
                            !.message = "Rejection reason is required"]
            ELSE [r0 EXCEPT !.pc = "update", !.adminId = rejection_reason,
                            !.reason = QueryFn]]
    /\ UNCHANGED <<scanVars, tokVars, stallVars, events, event_permissions, sideVars>>

\* the row the UPDATE of Event.approveByAdmin / Event.rejectByAdmin writes
DecidedRow(row, r) ==
    IF r.op = "approve"
    THEN [row EXCEPT !.status = "APPROVED",
                     !.approved_by_admin_id = r.adminId,
                     !.admin_rejection_reason = NULL]
    ELSE [row EXCEPT !.status = "CANCELLED",
                     !.approved_by_admin_id = r.adminId,
                     !.admin_rejection_reason = r.reason]

\* the UPDATE without its AND status = 'PENDING_APPROVAL'
EventUpdate_anyStatus(q) ==
    /\ eReq[q].pc = "update"
    /\ IF eReq[q].id \in EventIds
       THEN /\ events' = [events EXCEPT ![eReq[q].id] = DecidedRow(@, eReq[q])]
            /\ eReq' = [eReq EXCEPT ![q].pc = "permission"]
       ELSE /\ eReq' = [eReq EXCEPT ![q] =
                  EventRespond(q, 500, "Event not found or not in pending status")]
            /\ UNCHANGED events
    /\ UNCHANGED <<scanVars, tokVars, stallVars, event_permissions, sideVars>>

\* the UPDATE of Event.approveByAdmin / Event.rejectByAdmin: one row when the
\* event exists and is PENDING_APPROVAL, else the model throws
EventUpdate(q) ==
    /\ eReq[q].pc = "update"
    /\ IF eReq[q].id \in EventIds
          /\ events[eReq[q].id].status = "PENDING_APPROVAL"
       THEN /\ events' = [events EXCEPT ![eReq[q].id] = DecidedRow(@, eReq[q])]
            /\ eReq' = [eReq EXCEPT ![q].pc = "permission"]
       ELSE /\ eReq' = [eReq EXCEPT ![q] =
                  EventRespond(q, 500, "Event not found or not in pending status")]
            /\ UNCHANGED events
    /\ UNCHANGED <<scanVars, tokVars, stallVars, event_permissions, sideVars>>

\* the INSERT INTO event_permissions, then the success response
EventPermission(q) ==
    /\ eReq[q].pc = "permission"
    /\ event_permissions' = event_permissions \cup
          {[event_id |-> eReq[q].id,
            manager_id |-> events[eReq[q].id].created_by_manager_id,
            admin_id |-> eReq[q].adminId,
            permission_type |-> IF eReq[q].op = "approve" THEN "APPROVED"
                                                          ELSE "REJECTED",
            reason |-> IF eReq[q].op = "approve"
                       THEN <<"Event approved by admin">> ELSE eReq[q].reason]}
    /\ eReq' = [eReq EXCEPT ![q] =
                  EventRespond(q, 200, IF eReq[q].op = "approve"
                                       THEN "Event approved successfully"
                                       ELSE "Event rejected successfully")]
    /\ UNCHANGED <<scanVars, tokVars, stallVars, events, sideVars>>

\* the database refuses a query of the model (a value of the wrong type, a
\* lost connection): the model's promise rejects, next(error)
EventQueryFails(q) ==
    /\ eReq[q].pc \in {"update", "permission"}
    /\ eReq' = [eReq EXCEPT ![q] = EventRespond(q, 500, "Internal server error")]
    /\ UNCHANGED <<scanVars, tokVars, stallVars, events, event_permissions, sideVars>>

EventFinish(q) ==
    /\ eReq[q].pc = "done"
    /\ eReq' = [eReq EXCEPT ![q] = IdleEventReq]
    /\ UNCHANGED <<scanVars, tokVars, stallVars, events, event_permissions, sideVars>>

\* one admin session, one request after another
NextEvent ==
    \/ \E a \in AdminIds, id \in EventTargets : ApproveEvent("a1", a, id)
    \/ \E a \in AdminIds, id \in EventTargets, rr \in ReasonInputs :
          RejectEvent("a1", a, id, rr)
    \/ EventUpdate("a1")
    \/ EventPermission("a1")
    \/ EventQueryFails("a1")
    \/ EventFinish("a1")

SpecEvent == Init /\ [][NextEvent]_vars

(* ------------ two admin sessions, one decision request each ------------ *)
NextDecide ==
    \/ \E q \in EventRequests, a \in AdminIds, id \in EventTargets :
          ApproveEvent(q, a, id)
    \/ \E q \in EventRequests, a \in AdminIds, id \in EventTargets :
          RejectEvent(q, a, id, ShortReason)
    \/ \E q \in EventRequests : EventUpdate(q)
    \/ \E q \in EventRequests : EventPermission(q)
    \/ \E q \in EventRequests : EventQueryFails(q)

SpecDecide == Init /\ [][NextDecide]_vars

(* ------------------- deleting an event manager ------------------------- *)
\* Event.updateStatus: any valid status, whatever the current one
UpdateStatus(e, newStatus) ==
    /\ IF newStatus \in ValidStatuses /\ e \in EventIds
       THEN events' = [events EXCEPT ![e].status = newStatus]
       ELSE UNCHANGED events
    /\ UNCHANGED <<scanVars, tokVars, stallVars, event_permissions, eReq, sideVars>>

\* DELETE /api/admin/event-managers/:id arrives
DeleteEventManager(m) ==
    /\ mReq.pc = "idle"
    /\ mReq' = [IdleManagerReq EXCEPT !.pc = "count", !.id = m]
    /\ UNCHANGED <<scanVars, tokVars, stallVars, eventVars, event_managers, sideButManager>>

\* SELECT COUNT(*) FROM events WHERE created_by_manager_id = $1 AND status = 'ACTIVE'
activeEvents(m) ==
    Cardinality({e \in EventIds : events[e].created_by_manager_id = m
                                     /\ events[e].status = "ACTIVE"})

CountActiveEvents ==
    /\ mReq.pc = "count"
    /\ mReq' = IF activeEvents(mReq.id) > 0
               THEN [mReq EXCEPT !.pc = "done", !.status = 400]
               ELSE [mReq EXCEPT !.pc = "delete"]
    /\ UNCHANGED <<scanVars, tokVars, stallVars, eventVars, event_managers, sideButManager>>

\* DELETE FROM event_managers WHERE id = $1 RETURNING id
DeleteManagerRow ==
    /\ mReq.pc = "delete"
    /\ IF mReq.id \in event_managers
       THEN /\ event_managers' = event_managers \ {mReq.id}
            /\ mReq' = [mReq EXCEPT !.pc = "done", !.status = 200]
       ELSE /\ mReq' = [mReq EXCEPT !.pc = "done", !.status = 404]
            /\ UNCHANGED event_managers
    /\ UNCHANGED <<scanVars, tokVars, stallVars, eventVars, sideButManager>>

\* a query of deleteEventManager rejects: next(error)
ManagerQueryFails ==
    /\ mReq.pc \in {"count", "delete"}
    /\ mReq' = [mReq EXCEPT !.pc = "done", !.status = 500]
    /\ UNCHANGED <<scanVars, tokVars, stallVars, eventVars, event_managers, sideButManager>>

ManagerFinish ==
    /\ mReq.pc = "done"
    /\ mReq' = IdleManagerReq
    /\ UNCHANGED <<scanVars, tokVars, stallVars, eventVars, event_managers, sideButManager>>

NextManager ==
    \/ \E e \in EventIds, st \in ValidStatuses \cup {"REJECTED"} : UpdateStatus(e, st)
    \/ \E m \in ManagerIds : DeleteEventManager(m)
    \/ CountActiveEvents
    \/ DeleteManagerRow
    \/ ManagerQueryFails
    \/ ManagerFinish

SpecManager == Init /\ [][NextManager]_vars

(* ------------- POST / PUT / DELETE /api/stall through the router ------- *)
\* authenticateToken: 401 without a valid token, else req.user is set and the
\* next handler runs
authenticateToken(role) == IF role = NoRole THEN 401 ELSE 0

\* authorizeRoles(...allowed): 403 unless req.user.role is one of them
authorizeRoles(allowed, role) == IF role \in allowed THEN 0 ELSE 403

\* the middleware a route lists before its handler
StallWriteMiddleware(method, role) == authenticateToken(role)

\* a request on one of the three write routes
StallWrite(method, role, i, name) ==
    /\ wReq.pc = "idle"
    /\ method = "POST" => i \in StallIds
    /\ LET r0 == [IdleWriteReq EXCEPT !.method = method, !.role = role,
                                      !.id = i, !.stall_name = name]
           refused == StallWriteMiddleware(method, role)
       IN wReq' = IF refused # 0
                  THEN [r0 EXCEPT !.pc = "done", !.status = refused]
                  ELSE [r0 EXCEPT !.pc = "handler"]
    /\ UNCHANGED <<scanVars, tokVars, stallVars, eventVars, sideButStallAdmin>>

\* Stall.findByStallNumber
findByStallNumber(n) == {i \in StallIds : stalls[i].exists /\ i = n}

\* createStall: required fields, the duplicate check
CreateStallCheck ==
    /\ wReq.pc = "handler"
    /\ wReq.method = "POST"
    /\ wReq' = IF wReq.stall_name = NoName
               THEN [wReq EXCEPT !.pc = "done", !.status = 400]
               ELSE IF findByStallNumber(wReq.id) # {}
               THEN [wReq EXCEPT !.pc = "done", !.status = 409]
               ELSE [wReq EXCEPT !.pc = "create"]
    /\ UNCHANGED <<scanVars, tokVars, stallVars, eventVars, sideButStallAdmin>>

\* createStall: Stall.create and the 201 response
CreateStallInsert ==
    /\ wReq.pc = "create"
    /\ wReq.id \in StallIds
    /\ ~stalls[wReq.id].exists
    /\ \E qrOk \in BOOLEAN :
          stalls' = [stalls EXCEPT ![wReq.id] =
                        NewStall(wReq.id, wReq.stall_name, qrOk, now)]
    /\ wReq' = [wReq EXCEPT !.pc = "done", !.status = 201]
    /\ UNCHANGED <<scanVars, tokVars, sReq, stallScans, eventVars, sideButStallAdmin>>

\* updateStall: Stall.update(id, {stall_name}), 404 when no row
UpdateStall ==
    /\ wReq.pc = "handler"
    /\ wReq.method = "PUT"
    /\ IF wReq.id \in StallIds /\ stalls[wReq.id].exists
       THEN /\ stalls' = IF wReq.stall_name = NoName THEN stalls
                         ELSE [stalls EXCEPT ![wReq.id].stall_name = wReq.stall_name]
            /\ wReq' = [wReq EXCEPT !.pc = "done", !.status = 200]
       ELSE /\ wReq' = [wReq EXCEPT !.pc = "done", !.status = 404]
            /\ UNCHANGED stalls
    /\ UNCHANGED <<scanVars, tokVars, sReq, stallScans, eventVars, sideButStallAdmin>>

\* deleteStall: Stall.delete(id), 404 when no row
DeleteStall ==
    /\ wReq.pc = "handler"
    /\ wReq.method = "DELETE"
    /\ IF wReq.id \in StallIds /\ stalls[wReq.id].exists
       THEN /\ stalls' = [stalls EXCEPT ![wReq.id] = NoStall]
            /\ wReq' = [wReq EXCEPT !.pc = "done", !.status = 200]
       ELSE /\ wReq' = [wReq EXCEPT !.pc = "done", !.status = 404]
            /\ UNCHANGED stalls
    /\ UNCHANGED <<scanVars, tokVars, sReq, stallScans, eventVars, sideButStallAdmin>>

\* a query of a stall handler rejects: next(error)
StallWriteFails ==
    /\ wReq.pc \in {"handler", "create"}
    /\ wReq' = [wReq EXCEPT !.pc = "done", !.status = 500]
    /\ UNCHANGED <<scanVars, tokVars, stallVars, eventVars, sideButStallAdmin>>

StallWriteFinish ==
    /\ wReq.pc = "done"
    /\ wReq' = IdleWriteReq
    /\ UNCHANGED <<scanVars, tokVars, stallVars, eventVars, sideButStallAdmin>>

NextStallAdmin ==
    \/ \E method \in {"POST", "PUT", "DELETE"}, role \in Roles \cup {NoRole},
          i \in StallNumbers, name \in StallNames \cup {NoName} :
             StallWrite(method, role, i, name)
    \/ CreateStallCheck
    \/ CreateStallInsert
    \/ UpdateStall
    \/ DeleteStall
    \/ StallWriteFails
    \/ StallWriteFinish

SpecStallAdmin == Init /\ [][NextStallAdmin]_vars

(* ----------------------------- Event.create ---------------------------- *)
\* the destructuring default: requires_approval = true
WithDefault(x, d) == IF x = Undefined THEN d ELSE x

\* what eventData can carry
EventData ==
    [event_name : {"e1", "e2"}, event_code : {"c1", "c2"},
     event_type : {"FREE", "PAID"}, price : {0, 100},
     start_date : {1, 3}, end_date : {2},
     registration_start_date : {1}, registration_end_date : {2},
     requires_approval : {Undefined, "true", "false"}]

\* the id the INSERT gets
NextEventId == CHOOSE e \in NewEventIds :
                  /\ events[e] = NoEvent
                  /\ \A f \in NewEventIds : f < e => events[f] # NoEvent

\* Event.create(eventData, managerId): the three validations throw, else
\* one INSERT
CreateEvent(eventData, managerId) ==
    /\ \E e \in NewEventIds : events[e] = NoEvent
    /\ LET requires_approval == WithDefault(eventData.requires_approval, "true")
           invalid ==
               \/ eventData.event_type = "PAID" /\ eventData.price <= 0
               \/ eventData.start_date >= eventData.end_date
               \/ eventData.registration_start_date
                     >= eventData.registration_end_date
       IN events' =
            IF invalid THEN events
            ELSE [events EXCEPT ![NextEventId] =
                    [status |-> IF requires_approval = "true"
                                THEN "PENDING_APPROVAL" ELSE "APPROVED",
                     approved_by_admin_id |-> NULL,
                     admin_rejection_reason |-> NULL,
                     created_by_manager_id |-> managerId,
                     event_code |-> eventData.event_code,
                     event_name |-> eventData.event_name,
                     requires_approval |-> (requires_approval = "true")]]
    /\ UNCHANGED <<scanVars, tokVars, stallVars, event_permissions, eReq, sideVars>>

NextCreate ==
    \E eventData \in EventData, managerId \in ManagerIds :
        CreateEvent(eventData, managerId)

SpecCreate == Init /\ [][NextCreate]_vars

(* --------------- updateEvent / deleteEvent, step by step --------------- *)
\* EventModel.findById
EventFindById(id) == IF id \in EventSlots THEN events[id] ELSE NoEvent

\* updateEvent refuses these
LockedStatuses == {"ACTIVE", "COMPLETED", "ARCHIVED"}

EventWriteRespond(status, message) ==
    [xReq EXCEPT !.pc = "done", !.status = status, !.message = message]

\* PUT /api/event-managers/events/:eventId arrives
UpdateEvent(e, managerId, body) ==
    /\ xReq.pc = "idle"
    /\ xReq' = [IdleEventWrite EXCEPT !.pc = "find", !.kind = "update",
                   !.eventId = e, !.managerId = managerId, !.body = body]
    /\ UNCHANGED <<scanVars, tokVars, stallVars, eventVars, sideButEventWrite>>

\* DELETE /api/event-managers/events/:eventId arrives
DeleteEvent(e, managerId) ==
    /\ xReq.pc = "idle"
    /\ xReq' = [IdleEventWrite EXCEPT !.pc = "find", !.kind = "delete",
                   !.eventId = e, !.managerId = managerId]
    /\ UNCHANGED <<scanVars, tokVars, stallVars, eventVars, sideButEventWrite>>

\* the ownership check of both handlers and the status check of updateEvent
CheckOwnership ==
    /\ xReq.pc = "find"
    /\ LET event == EventFindById(xReq.eventId)
       IN xReq' =
            IF event = NoEvent
            THEN EventWriteRespond(404, "Event not found")
            ELSE IF event.created_by_manager_id # xReq.managerId
            THEN EventWriteRespond(403, "Unauthorized access to this event")
            ELSE IF xReq.kind = "update" /\ event.status \in LockedStatuses
            THEN EventWriteRespond(400,
                    "Cannot update event that is active, completed, or archived")
            ELSE [xReq EXCEPT !.pc = xReq.kind, !.event = event]
    /\ UNCHANGED <<scanVars, tokVars, stallVars, eventVars, sideButEventWrite>>

\* Event.update keeps the allowed fields that are not undefined (of the
\* allowed fields the rows here carry event_name)
updateFields(updates) ==
    IF updates.event_name # Undefined THEN {"event_name"} ELSE {}

\* Event.update(eventId, req.body)
EventModelUpdate ==
    /\ xReq.pc = "update"
    /\ IF updateFields(xReq.body) = {}
       THEN /\ xReq' = EventWriteRespond(500, "No valid fields to update")
            /\ UNCHANGED events
       ELSE IF EventFindById(xReq.eventId) = NoEvent
       THEN /\ xReq' = EventWriteRespond(500, "Event not found")
            /\ UNCHANGED events
       ELSE /\ events' = [events EXCEPT
                            ![xReq.eventId].event_name = xReq.body.event_name]
            /\ xReq' = [xReq EXCEPT !.pc = "audit"]
    /\ UNCHANGED <<scanVars, tokVars, stallVars, event_permissions, eReq,
                   sideButEventWrite>>

\* SELECT COUNT(*) ... WHERE event_id = $1 AND registration_status = 'CONFIRMED'
confirmedRegistrations(e) ==
    Cardinality({r \in RegistrationIds :
                    /\ event_registrations[r].event_id = e
                    /\ event_registrations[r].registration_status = "CONFIRMED"})

\* Event.delete, its first query
CountConfirmed ==
    /\ xReq.pc = "delete"
    /\ xReq' = IF confirmedRegistrations(xReq.eventId) > 0
               THEN EventWriteRespond(500,
                       "Cannot delete event with active registrations. Cancel the event instead.")
               ELSE [xReq EXCEPT !.pc = "cancel"]
    /\ UNCHANGED <<scanVars, tokVars, stallVars, eventVars, sideButEventWrite>>

\* Event.delete, its second query: UPDATE events SET status = 'CANCELLED'
CancelEvent ==
    /\ xReq.pc = "cancel"
    /\ events' = IF EventFindById(xReq.eventId) = NoEvent THEN events
                 ELSE [events EXCEPT ![xReq.eventId].status = "CANCELLED"]
    /\ xReq' = [xReq EXCEPT !.pc = "audit"]
    /\ UNCHANGED <<scanVars, tokVars, stallVars, event_permissions, eReq,
                   sideButEventWrite>>

\* logAuditEvent, then the 200 answer
LogAudit ==
    /\ xReq.pc = "audit"
    /\ xReq' = EventWriteRespond(200,
                  IF xReq.kind = "update" THEN "Event updated successfully"
                  ELSE "Event cancelled successfully")
    /\ UNCHANGED <<scanVars, tokVars, stallVars, eventVars, sideButEventWrite>>

\* a query of the handler rejects: the catch block answers 500
EventWriteFails ==
    /\ xReq.pc \in {"find", "update", "delete", "cancel", "audit"}
    /\ xReq' = EventWriteRespond(500, "query failed")
    /\ UNCHANGED <<scanVars, tokVars, stallVars, eventVars, sideButEventWrite>>

EventWriteFinish ==
    /\ xReq.pc = "done"
    /\ xReq' = IdleEventWrite
    /\ UNCHANGED <<scanVars, tokVars, stallVars, eventVars, sideButEventWrite>>

NextUpdate ==
    \/ \E e \in EventTargets, m \in ManagerIds, body \in UpdateBodies :
          UpdateEvent(e, m, body)
    \/ CheckOwnership
    \/ EventModelUpdate
    \/ LogAudit
    \/ EventWriteFails
    \/ EventWriteFinish
    \/ \E e \in EventIds, st \in {"ACTIVE", "APPROVED"} : UpdateStatus(e, st)

SpecUpdate == Init /\ [][NextUpdate]_vars

(* ------------------- payments of a registration ------------------------ *)
\* EventRegistration.createPaidRegistration: payment pending
CreatePaidRegistration(r, e) ==
    /\ event_registrations[r] = NoRegistration
    /\ event_registrations' = [event_registrations EXCEPT ![r] =
          [NoRegistration EXCEPT !.event_id = e, !.payment_status = "PENDING",
                                 !.registration_status = "PENDING"]]
    /\ UNCHANGED <<scanVars, tokVars, stallVars, eventVars, payCalls,
                   sideButRegistration>>

RegistrationFindById(id) ==
    IF id \in RegistrationIds THEN event_registrations[id] ELSE NoRegistration

\* variant: the UPDATE without AND payment_status = 'PENDING'
CompletePayment_anyStatus(registrationId, paymentData) ==
    /\ Len(payCalls) < MaxPayCalls
    /\ IF RegistrationFindById(registrationId) # NoRegistration
       THEN /\ event_registrations' = [event_registrations EXCEPT
                  ![registrationId] =
                     [@ EXCEPT !.payment_status = "COMPLETED",
                               !.razorpay_payment_id =
                                    paymentData.razorpay_payment_id,
                               !.razorpay_signature =
                                    paymentData.razorpay_signature,
                               !.payment_completed_at = now,
                               !.registration_status = "CONFIRMED"]]
            /\ payCalls' = Append(payCalls,
                  [id |-> registrationId, paymentData |-> paymentData,
                   result |-> "ok"])
       ELSE /\ payCalls' = Append(payCalls,
                  [id |-> registrationId, paymentData |-> paymentData,
                   result |->
                     "Registration not found or payment already completed"])
            /\ UNCHANGED event_registrations
    /\ UNCHANGED <<scanVars, tokVars, stallVars, eventVars, sideButRegistration>>

\* EventRegistration.completePayment: one UPDATE ... WHERE id = $1 AND
\* payment_status = 'PENDING'; no row: throws
CompletePayment(registrationId, paymentData) ==
    /\ Len(payCalls) < MaxPayCalls
    /\ IF RegistrationFindById(registrationId).payment_status = "PENDING"
       THEN /\ event_registrations' = [event_registrations EXCEPT
                  ![registrationId] =
                     [@ EXCEPT !.payment_status = "COMPLETED",
                               !.razorpay_payment_id =
                                    paymentData.razorpay_payment_id,
                               !.razorpay_signature =
                                    paymentData.razorpay_signature,
                               !.payment_completed_at = now,
                               !.registration_status = "CONFIRMED"]]
            /\ payCalls' = Append(payCalls,
                  [id |-> registrationId, paymentData |-> paymentData,
                   result |-> "ok"])
       ELSE /\ payCalls' = Append(payCalls,
                  [id |-> registrationId, paymentData |-> paymentData,
                   result |->
                     "Registration not found or payment already completed"])
            /\ UNCHANGED event_registrations
    /\ UNCHANGED <<scanVars, tokVars, stallVars, eventVars, sideButRegistration>>

\* EventRegistration.failPayment: UPDATE ... WHERE id = $1
FailPayment(registrationId) ==
    /\ event_registrations' =
          IF RegistrationFindById(registrationId) = NoRegistration
          THEN event_registrations
          ELSE [event_registrations EXCEPT ![registrationId] =
                  [@ EXCEPT !.payment_status = "FAILED",
                            !.registration_status = "CANCELLED"]]
    /\ UNCHANGED <<scanVars, tokVars, stallVars, eventVars, payCalls,
                   sideButRegistration>>

NextPayment ==
    \/ \E r \in RegistrationIds, e \in EventIds : CreatePaidRegistration(r, e)
    \/ \E r \in RegistrationTargets, paymentData \in PaymentData :
          CompletePayment(r, paymentData)
    \/ \E r \in RegistrationTargets : FailPayment(r)
    \/ Later

SpecPayment == Init /\ [][NextPayment]_vars

(* -------------- deleteEvent next to registration payments -------------- *)
NextDelete ==
    \/ \E e \in EventTargets, m \in ManagerIds : DeleteEvent(e, m)
    \/ CheckOwnership
    \/ CountConfirmed
    \/ CancelEvent
    \/ LogAudit
    \/ EventWriteFails
    \/ EventWriteFinish
    \/ \E r \in RegistrationIds, e \in EventIds : CreatePaidRegistration(r, e)
    \/ \E r \in RegistrationTargets, paymentData \in PaymentData :
          CompletePayment(r, paymentData)

SpecDelete == Init /\ [][NextDelete]_vars

(* -------------------- POST /api/student/submit-feedback ---------------- *)
\* Feedback.countByStudent
countByStudent(u) ==
    EarlierFeedback(u) + feedbacks[u][11] + feedbacks[u][12]
        + feedbacks[u][13] + feedbacks[u][14]

FeedbackRespond(r, status) == [fReq[r] EXCEPT !.pc = "done", !.status = status]

\* the request arrives; the two validations answer 400
SubmitFeedback(r, u, stall_id, rating) ==
    /\ fReq[r].pc = "idle"
    /\ fReq' = [fReq EXCEPT ![r] =
          IF stall_id = 0 \/ rating = 0 \/ rating < 1 \/ rating > 5
          THEN [IdleFeedbackReq EXCEPT !.pc = "done", !.user = u,
                   !.stall_id = stall_id, !.rating = rating, !.status = 400]
          ELSE [IdleFeedbackReq EXCEPT !.pc = "student", !.user = u,
                   !.stall_id = stall_id, !.rating = rating]]
    /\ UNCHANGED <<scanVars, tokVars, stallVars, eventVars, feedbacks,
                   feedback_totals, sideButFeedback>>

\* Student.findById and the is_inside_event check
FeedbackFindStudent(r) ==
    /\ fReq[r].pc = "student"
    /\ fReq' = [fReq EXCEPT ![r] =
          IF fReq[r].user \notin StudentIds THEN FeedbackRespond(r, 404)
          ELSE IF ~students[fReq[r].user].is_inside_event
          THEN FeedbackRespond(r, 403)
          ELSE [fReq[r] EXCEPT !.pc = "count"]]
    /\ UNCHANGED <<scanVars, tokVars, stallVars, eventVars, feedbacks,
                   feedback_totals, sideButFeedback>>

\* the limit check on Feedback.countByStudent
FeedbackCheckLimit(r) ==
    /\ fReq[r].pc = "count"
    /\ LET feedbackCount == countByStudent(fReq[r].user)
       IN fReq' = [fReq EXCEPT ![r] =
             IF feedbackCount >= FeedbackLimit THEN FeedbackRespond(r, 403)
             ELSE [fReq[r] EXCEPT !.pc = "stall",
                                  !.feedbackCount = feedbackCount]]
    /\ UNCHANGED <<scanVars, tokVars, stallVars, eventVars, feedbacks,
                   feedback_totals, sideButFeedback>>

\* Stall.findById
FeedbackFindStall(r) ==
    /\ fReq[r].pc = "stall"
    /\ fReq' = [fReq EXCEPT ![r] =
          IF fReq[r].stall_id \notin SeededStallIds THEN FeedbackRespond(r, 404)
          ELSE [fReq[r] EXCEPT !.pc = "existing"]]
    /\ UNCHANGED <<scanVars, tokVars, stallVars, eventVars, feedbacks,
                   feedback_totals, sideButFeedback>>

\* Feedback.findByStudentAndStall
FeedbackFindExisting(r) ==
    /\ fReq[r].pc = "existing"
    /\ fReq' = [fReq EXCEPT ![r] =
          IF feedbacks[fReq[r].user][fReq[r].stall_id] > 0
          THEN FeedbackRespond(r, 409)
          ELSE [fReq[r] EXCEPT !.pc = "create"]]
    /\ UNCHANGED <<scanVars, tokVars, stallVars, eventVars, feedbacks,
                   feedback_totals, sideButFeedback>>

\* Feedback.create
FeedbackCreate(r) ==
    /\ fReq[r].pc = "create"
    /\ feedbacks' = [feedbacks EXCEPT ![fReq[r].user][fReq[r].stall_id] = @ + 1]
    /\ fReq' = [fReq EXCEPT ![r].pc = "incStudent"]
    /\ UNCHANGED <<scanVars, tokVars, stallVars, eventVars, feedback_totals,
                   sideButFeedback>>

\* Student.incrementFeedbackCount
FeedbackIncrementStudent(r) ==
    /\ fReq[r].pc = "incStudent"
    /\ feedback_totals' =
          [feedback_totals EXCEPT !.student[fReq[r].user] = @ + 1]
    /\ fReq' = [fReq EXCEPT ![r].pc = "incStall"]
    /\ UNCHANGED <<scanVars, tokVars, stallVars, eventVars, feedbacks,
                   sideButFeedback>>

\* UPDATE stalls SET total_feedback_count = total_feedback_count + 1, then 201
FeedbackIncrementStall(r) ==
    /\ fReq[r].pc = "incStall"
    /\ feedback_totals' =
          [feedback_totals EXCEPT !.stall[fReq[r].stall_id] = @ + 1]
    /\ fReq' = [fReq EXCEPT ![r] = FeedbackRespond(r, 201)]
    /\ UNCHANGED <<scanVars, tokVars, stallVars, eventVars, feedbacks,
                   sideButFeedback>>

\* a query rejects: next(error)
FeedbackFails(r) ==
    /\ fReq[r].pc \in {"student", "count", "stall", "existing", "create",
                       "incStudent", "incStall"}
    /\ fReq' = [fReq EXCEPT ![r] = FeedbackRespond(r, 500)]
    /\ UNCHANGED <<scanVars, tokVars, stallVars, eventVars, feedbacks,
                   feedback_totals, sideButFeedback>>

FeedbackFinish(r) ==
    /\ fReq[r].pc = "done"
    /\ fReq' = [fReq EXCEPT ![r] = IdleFeedbackReq]
    /\ UNCHANGED <<scanVars, tokVars, stallVars, eventVars, feedbacks,
                   feedback_totals, sideButFeedback>>

NextFeedback ==
    \E r \in FeedbackRequests :
        \/ \E u \in FeedbackUsers, stall_id \in FeedbackStallInputs,
              rating \in RatingInputs : SubmitFeedback(r, u, stall_id, rating)
        \/ FeedbackFindStudent(r)
        \/ FeedbackCheckLimit(r)
        \/ FeedbackFindStall(r)
        \/ FeedbackFindExisting(r)
        \/ FeedbackCreate(r)
        \/ FeedbackIncrementStudent(r)
        \/ FeedbackIncrementStall(r)
        \/ FeedbackFails(r)
        \/ FeedbackFinish(r)

SpecFeedback == Init /\ [][NextFeedback]_vars

(* ----------------- POST /api/student/submit-school-ranking ------------- *)
RankingRespond(r, status) == [kReq[r] EXCEPT !.pc = "done", !.status = status]

\* the three checks on req.body.rankings
ValidRankings(body) ==
    /\ Len(body) = 3
    /\ {body[i].rank : i \in 1..3} = {1, 2, 3}
    /\ Cardinality({body[i].stall_id : i \in 1..3}) = 3

\* the request arrives; the validations answer 400
SubmitSchoolRanking(r, u, body) ==
    /\ kReq[r].pc = "idle"
    /\ kReq' = [kReq EXCEPT ![r] =
          [IdleRankingReq EXCEPT !.user = u, !.rankings = body,
              !.pc = IF ValidRankings(body) THEN "student" ELSE "done",
              !.status = IF ValidRankings(body) THEN 0 ELSE 400]]
    /\ UNCHANGED <<scanVars, tokVars, stallVars, eventVars, rankings,
                   ranking_students, ranked_stalls, sideButRanking>>

\* Student.findById and the has_completed_ranking check
RankingFindStudent(r) ==
    /\ kReq[r].pc = "student"
    /\ kReq' = [kReq EXCEPT ![r] =
          IF kReq[r].user \notin StudentIds THEN RankingRespond(r, 404)
          ELSE IF ranking_students[kReq[r].user].has_completed_ranking
          THEN RankingRespond(r, 409)
          ELSE [kReq[r] EXCEPT !.pc = "stalls"]]
    /\ UNCHANGED <<scanVars, tokVars, stallVars, eventVars, rankings,
                   ranking_students, ranked_stalls, sideButRanking>>

\* stallCheckQuery: the ranked stalls that exist, then the school check
RankingCheckStalls(r) ==
    /\ kReq[r].pc = "stalls"
    /\ LET stallsToRank == {kReq[r].rankings[i].stall_id : i \in 1..3}
                              \cap SeededStallIds
           invalidStalls ==
               {s \in stallsToRank : ranked_stalls[s].school_id
                                        # ranking_students[kReq[r].user].school_id}
       IN kReq' = [kReq EXCEPT ![r] =
             IF Cardinality(stallsToRank) # 3 THEN RankingRespond(r, 404)
             ELSE IF invalidStalls # {} THEN RankingRespond(r, 403)
             ELSE [kReq[r] EXCEPT !.pc = "transaction"]]
    /\ UNCHANGED <<scanVars, tokVars, stallVars, eventVars, rankings,
                   ranking_students, ranked_stalls, sideButRanking>>

\* the rank the body gives stall s (0: not ranked)
RankGiven(body, s) ==
    IF \E i \in 1..Len(body) : body[i].stall_id = s
    THEN CHOOSE i \in 1..Len(body) : body[i].stall_id = s
    ELSE 0

RankOf(body, s) == IF RankGiven(body, s) = 0 THEN 0 ELSE body[RankGiven(body, s)].rank

\* UPDATE stalls SET rank_k_votes = rank_k_votes + 1, weighted_score = ...:
\* the right-hand sides read the row as it was before this UPDATE
VotedStall(row, rank) ==
    [row EXCEPT
       !.rank_1_votes = IF rank = 1 THEN @ + 1 ELSE @,
       !.rank_2_votes = IF rank = 2 THEN @ + 1 ELSE @,
       !.rank_3_votes = IF rank # 1 /\ rank # 2 THEN @ + 1 ELSE @,
       !.weighted_score = (row.rank_1_votes * 5) + (row.rank_2_votes * 3)
                             + (row.rank_3_votes * 1)]

\* the formula the admin top-stalls endpoint publishes
PublishedScore(row) ==
    (row.rank_1_votes * 5) + (row.rank_2_votes * 3) + (row.rank_3_votes * 1)

\* Stall.incrementRankVote: the score is computed from the row before the
\* UPDATE plus the new vote, with the weights 3, 2, 1
incrementRankVote(row, rank) ==
    [row EXCEPT
       !.rank_1_votes = IF rank = 1 THEN @ + 1 ELSE @,
       !.rank_2_votes = IF rank = 2 THEN @ + 1 ELSE @,
       !.rank_3_votes = IF rank = 3 THEN @ + 1 ELSE @,
       !.weighted_score =
            (row.rank_1_votes + (IF rank = 1 THEN 1 ELSE 0)) * 3
          + (row.rank_2_votes + (IF rank = 2 THEN 1 ELSE 0)) * 2
          + (row.rank_3_votes + (IF rank = 3 THEN 1 ELSE 0)) * 1]

\* BEGIN, Ranking.bulkCreate, UPDATE students, one UPDATE stalls per ranking,
\* COMMIT: the writes of the transaction take effect together
RankingTransaction(r) ==
    /\ kReq[r].pc = "transaction"
    /\ LET u == kReq[r].user
           body == kReq[r].rankings
       IN /\ rankings' = [rankings EXCEPT ![u] =
                [s \in SeededStallIds |-> [k \in 1..3 |->
                    IF RankOf(body, s) = k THEN rankings[u][s][k] + 1
                    ELSE rankings[u][s][k]]]]
          /\ ranking_students' =
                [ranking_students EXCEPT ![u].has_completed_ranking = TRUE]
          /\ ranked_stalls' = [s \in SeededStallIds |->
                IF RankOf(body, s) = 0 THEN ranked_stalls[s]
                ELSE VotedStall(ranked_stalls[s], RankOf(body, s))]
    /\ kReq' = [kReq EXCEPT ![r].pc = "read"]
    /\ UNCHANGED <<scanVars, tokVars, stallVars, eventVars, sideButRanking>>

\* rankedStallsQuery, then 201
RankingRead(r) ==
    /\ kReq[r].pc = "read"
    /\ kReq' = [kReq EXCEPT ![r] = RankingRespond(r, 201)]
    /\ UNCHANGED <<scanVars, tokVars, stallVars, eventVars, rankings,
                   ranking_students, ranked_stalls, sideButRanking>>

\* a query rejects; inside the transaction: ROLLBACK, nothing is written
RankingFails(r) ==
    /\ kReq[r].pc \in {"student", "stalls", "transaction", "read"}
    /\ kReq' = [kReq EXCEPT ![r] = RankingRespond(r, 500)]
    /\ UNCHANGED <<scanVars, tokVars, stallVars, eventVars, rankings,
                   ranking_students, ranked_stalls, sideButRanking>>

RankingFinish(r) ==
    /\ kReq[r].pc = "done"
    /\ kReq' = [kReq EXCEPT ![r] = IdleRankingReq]
    /\ UNCHANGED <<scanVars, tokVars, stallVars, eventVars, rankings,
                   ranking_students, ranked_stalls, sideButRanking>>

NextRanking ==
    \E r \in RankingRequests :
        \/ \E u \in FeedbackUsers, body \in RankingBodies :
              SubmitSchoolRanking(r, u, body)
        \/ RankingFindStudent(r)
        \/ RankingCheckStalls(r)
        \/ RankingTransaction(r)
        \/ RankingRead(r)
        \/ RankingFails(r)
        \/ RankingFinish(r)

SpecRanking == Init /\ [][NextRanking]_vars

(* ============================== claims ================================= *)
Abs(x) == IF x < 0 THEN 0 - x ELSE x

\* whole minutes between the entry time before a toggle and the time of the
\* toggle, never negative, 0 when there is no entry time
ExpectedDuration(g) ==
    IF g.entry_before = NULL THEN 0
    ELSE IF g.at < g.entry_before THEN 0
    ELSE (g.at - g.entry_before) \div 60

PreTogglePcs == {"idle", "find", "volunteer", "toggle"}
PostTogglePcs == {"ledger", "duration", "counter"}

\* C1: scans of one attendee processed one after another, starting OUTSIDE and
\* never scanned: the k-th accepted scan is decided ENTRY iff k is odd, and
\* the attendee is INSIDE after it iff k is odd.
C1_SequentialAlternation ==
    \A s \in StudentIds :
        LET log == toggleLog[s]
        IN (Len(log) > 0 /\ ~log[1].was_inside) =>
              /\ \A k \in 1..Len(log) :
                    /\ (log[k].told = "ENTRY") <=> (k % 2 = 1)
                    /\ log[k].was_inside <=> (k % 2 = 0)
              /\ students[s].is_inside_event <=> (Len(log) % 2 = 1)
              /\ students[s].total_scan_count = Len(log)

C1_Witness ==
    /\ Len(toggleLog[1]) = 3
    /\ toggleLog[1][1].told = "ENTRY"
    /\ toggleLog[1][2].told = "EXIT"
    /\ toggleLog[1][3].told = "ENTRY"
    /\ students[1].is_inside_event

\* C2: under any interleaving of scans of one attendee, the actions the
\* stations are told alternate in toggle completion order, starting with
\* ENTRY for an attendee who starts OUTSIDE.
C2_ConcurrentAlternation ==
    \A s \in StudentIds :
        LET log == toggleLog[s]
        IN (Len(log) > 0 /\ ~log[1].was_inside) =>
              /\ log[1].told = "ENTRY"
              /\ \A k \in 1..(Len(log) - 1) : log[k].told # log[k + 1].told

C4_WindowGrace ==
    tPhase = "verified" =>
        (tDecoded.valid <=> Abs(WindowIndex(tVerify) - WindowIndex(tIssue)) <= 2)

C4_Witness ==
    /\ tPhase = "verified"
    /\ WindowIndex(tIssue) = 100
    /\ WindowIndex(tVerify) = 98
    /\ tDecoded.valid

\* C5: the duration an EXIT scan reports and records is the whole minutes
\* from the attendee's last entry time before the toggle to the time of the
\* toggle, clamped to 0, and 0 when there is no entry time.
C5_ExitDuration ==
    /\ \A r \in Requests :
          (req[r].pc \in {"duration", "counter"} /\ req[r].action = "EXIT") =>
             req[r].durationMinutes =
                ExpectedDuration(toggleLog[req[r].student_id][req[r].scan_number])
    /\ \A e \in check_in_outs :
          e.scan_type = "CHECKOUT" =>
             e.duration_minutes =
                ExpectedDuration(toggleLog[e.student_id][e.scan_number])

\* C6: every scan whose toggle took effect and that has passed the ledger
\* step has exactly one ledger entry, for ENTRY and for EXIT alike.
C6_OneLedgerEntryPerScan ==
    \A r \in Requests :
        req[r].pc \in {"duration", "counter"} =>
           Cardinality({e \in check_in_outs :
                           /\ e.student_id = req[r].student_id
                           /\ e.scan_number = req[r].scan_number}) = 1

\* C7: each ledger entry has the kind of the transition its toggle applied;
\* an attendee's entries have distinct sequence numbers and their kinds
\* alternate in sequence-number order.
C7_LedgerKindIsTransition ==
    /\ \A e \in check_in_outs :
          (e.scan_type = "CHECKIN") <=>
              ~toggleLog[e.student_id][e.scan_number].was_inside
    /\ \A e1, e2 \in check_in_outs :
          (e1.student_id = e2.student_id /\ e1.scan_number = e2.scan_number)
             => e1 = e2
    /\ \A e1, e2 \in check_in_outs :
          (e1.student_id = e2.student_id /\ e2.scan_number = e1.scan_number + 1)
             => e1.scan_type # e2.scan_type

\* C8: no step of a request before its toggle takes effect, the step that
\* answers 400, 404, 403 or an error included, changes the students, the
\* ledger or the volunteers.
C8_FailFastNoSideEffects ==
    [][\A r \in Requests :
          (req[r].pc \in PreTogglePcs /\ req'[r] # req[r] /\ req'[r].pc # "ledger")
             => UNCHANGED <<students, check_in_outs, volunteers>>]_vars

C8_Witness ==
    \E r \in Requests :
        /\ req[r].pc = "done"
        /\ req[r].status = 403
        /\ req[r].failedAt = "volunteer"
        /\ students[1] = FreshStudent
        /\ check_in_outs = {}
        /\ \A v \in VolunteerIds : volunteers[v].total_scans_performed = 0

\* C9: no step of a request after its toggle, a failing ledger write,
\* duration update or counter update included, changes the location state
\* or the scan_count of the attendee it toggled.
C9_ToggleNotRolledBack ==
    [][\A r \in Requests :
          (req[r].pc \in PostTogglePcs /\ req'[r] # req[r]) =>
             /\ students'[req[r].student_id].is_inside_event
                   = students[req[r].student_id].is_inside_event
             /\ students'[req[r].student_id].total_scan_count
                   = students[req[r].student_id].total_scan_count]_vars

C9_Witness ==
    \E r \in Requests :
        /\ req[r].pc = "done"
        /\ req[r].status = 500
        /\ req[r].failedAt = "ledger"
        /\ students[1].is_inside_event
        /\ students[1].total_scan_count = 1
        /\ check_in_outs = {}

\* C10: a request whose operator counter update failed still answers the
\* station with the action it decided.
C10_CounterFailureStillAnswersAction ==
    \A r \in Requests :
        (req[r].pc = "done" /\ req[r].failedAt = "counter") =>
            req[r].respAction \in {"ENTRY", "EXIT"}

\* C11: a scan of an attendee who is INSIDE with no recorded entry time,
\* once past the ledger step as an EXIT, has its CHECKOUT ledger entry with
\* duration 0, like any other EXIT.
C11_NoEntryTimeExitIsLedgered ==
    \A r \in Requests :
        (/\ req[r].pc = "counter"
         /\ req[r].action = "EXIT"
         /\ req[r].previousCheckInTime = NULL) =>
            \E e \in check_in_outs :
                /\ e.student_id = req[r].student_id
                /\ e.scan_number = req[r].scan_number
                /\ e.scan_type = "CHECKOUT"
                /\ e.duration_minutes = 0

\* C12: a request gets to the toggle or past it only when its operator has a
\* row in volunteers and that row is active.
C12_OnlyActiveVolunteerToggles ==
    \A r \in Requests :
        req[r].pc \in ({"toggle"} \cup PostTogglePcs) =>
            /\ req[r].volunteer_id \in VolunteerIds
            /\ volunteers[req[r].volunteer_id].is_active

\* C18: a step that changes an attendee's location state or scan_count flips
\* the state, adds exactly 1 to scan_count and sets exactly one timestamp to
\* now (last_checkin_at going INSIDE, last_checkout_at going OUTSIDE, the
\* other one kept); scan_count never decreases and equals the number of
\* toggles applied to the attendee.
C18_ToggleEffect ==
    [][\A s \in StudentIds :
          LET old == students[s]
              new == students'[s]
          IN /\ new.total_scan_count >= old.total_scan_count
             /\ new.total_scan_count = Len(toggleLog'[s])
             /\ (new.is_inside_event # old.is_inside_event
                   \/ new.total_scan_count # old.total_scan_count
                   \/ new.last_checkin_at # old.last_checkin_at
                   \/ new.last_checkout_at # old.last_checkout_at) =>
                   /\ new.is_inside_event = ~old.is_inside_event
                   /\ new.total_scan_count = old.total_scan_count + 1
                   /\ IF old.is_inside_event
                      THEN /\ new.last_checkout_at = now
                           /\ new.last_checkin_at = old.last_checkin_at
                      ELSE /\ new.last_checkin_at = now
                           /\ new.last_checkout_at = old.last_checkout_at]_vars

C18_Witness ==
    /\ Len(toggleLog[1]) = 2
    /\ ~students[1].is_inside_event
    /\ students[1].total_scan_count = 2
    /\ students[1].last_checkin_at = 0
    /\ students[1].last_checkout_at = ClockStep

\* the minutes of the exits among the first n toggles of a log
RECURSIVE ExitMinutes(_, _)
ExitMinutes(log, n) ==
    IF n = 0 THEN 0
    ELSE ExitMinutes(log, n - 1)
           + (IF log[n].was_inside THEN ExpectedDuration(log[n]) ELSE 0)

\* C19: in every state the accumulated minutes of an attendee include the
\* duration of every EXIT toggle applied so far: the aggregate is written by
\* the toggle and by nothing else.
C19_MinutesIncludeVisibleExits ==
    \A s \in StudentIds :
        students[s].total_active_duration_minutes
            = ExitMinutes(toggleLog[s], Len(toggleLog[s]))

TokenFails == tToken # NoToken /\ ~VerifyChain(tToken, tVerify).valid

\* C13: every presented token that fails verification, malformed, signed with
\* another key, or expired by any number of seconds, is answered with one and
\* the same status and message, so any two failing tokens get the same
\* response, and verification failure leaves no trace of its kind in the
\* response.
C13_UniformInvalidResponse ==
    (tPhase = "answered" /\ TokenFails) =>
        /\ tResp.status = 400
        /\ tResp.message = "Invalid QR code"
        /\ tResp.lookup = NoResp.lookup
        /\ tResp.student_id = NoResp.student_id

C13_Witness ==
    /\ tPhase = "answered"
    /\ tToken = generateRotatingStudentToken(RegNoOf(1), tIssue)
    /\ WindowIndex(tVerify) = WindowIndex(tIssue) + GRACE_PERIOD_WINDOWS + 1
    /\ tVerify % ROTATION_INTERVAL_SECONDS = 0
    /\ tResp.ran = <<"rotating">>
    /\ tResp.status = 400
    /\ tResp.message = "Invalid QR code"

ReplayAccepted ==
    \A r \in Requests :
        (/\ tPhase = "issued"
         /\ req[r].pc = "idle"
         /\ req'[r].pc # "idle"
         /\ Abs(WindowIndex(now) - WindowIndex(tIssue)) <= GRACE_PERIOD_WINDOWS)
           => /\ req'[r].pc = "find"
              /\ req'[r].registration_no = tToken.registration_no

\* the toggles of student s flip the state in turn, and for a student who
\* started OUTSIDE every scan past its ledger step has its ledger entry
ReplayFlips(s) ==
    LET log == toggleLog[s]
    IN /\ \A k \in 1..(Len(log) - 1) : log[k + 1].was_inside = ~log[k].was_inside
       /\ Len(log) > 0 =>
             ((students[s].is_inside_event = log[1].was_inside)
                 <=> (Len(log) % 2 = 0))
       /\ (Len(log) > 0 /\ ~log[1].was_inside) =>
             Cardinality({e \in check_in_outs : e.student_id = s})
                = Len(log) - Cardinality({r \in Requests :
                                             /\ req[r].pc = "ledger"
                                             /\ req[r].student_id = s})

\* C15: a displayed rotating token is accepted by every scan that starts
\* within its grace windows, however many scans of it came before and
\* whichever active operator scans; every accepted scan flips the attendee,
\* so the second scan reverses the first, and for an attendee who started
\* OUTSIDE every scan past its ledger step has written its own ledger entry.
C15_TokenNotConsumed ==
    [][ReplayAccepted /\ (\A s \in StudentIds : ReplayFlips(s))']_vars

C15_Witness ==
    /\ tPhase = "issued"
    /\ tToken = generateRotatingStudentToken(RegNoOf(1), 0)
    /\ now = 0
    /\ Len(toggleLog[1]) = 2
    /\ ~toggleLog[1][1].was_inside
    /\ toggleLog[1][2].was_inside
    /\ ~students[1].is_inside_event
    /\ \A r \in Requests : req[r].pc = "idle"
    /\ \E e1, e2 \in check_in_outs :
          /\ e1.student_id = 1 /\ e1.scan_number = 1 /\ e1.volunteer_id = 1
          /\ e2.student_id = 1 /\ e2.scan_number = 2 /\ e2.volunteer_id = 2

\* a step of station r leaves the rows of all students but its own unchanged
FrameOthers ==
    \A r \in Requests :
        req'[r] # req[r] =>
            \A b \in StudentIds \ {OwnStudent(r)} : students'[b] = students[b]

\* what scans of student s give when they run one after another: each is told
\* the transition its toggle applied, the toggles alternate, the row counts
\* them, and an EXIT reports the minutes since the entry before its toggle
SequentialResults(s) ==
    LET log == toggleLog[s]
    IN /\ \A k \in 1..Len(log) : (log[k].told = "ENTRY") <=> ~log[k].was_inside
       /\ \A k \in 1..(Len(log) - 1) : log[k + 1].was_inside = ~log[k].was_inside
       /\ students[s].total_scan_count = Len(log)
       /\ Len(log) > 0 =>
             (students[s].is_inside_event <=> ~log[Len(log)].was_inside)
       /\ \A r \in Requests :
             (/\ req[r].student_id = s
              /\ req[r].pc \in {"duration", "counter"}
              /\ req[r].action = "EXIT") =>
                 req[r].durationMinutes = ExpectedDuration(log[req[r].scan_number])

\* C17: a step of a scan of one attendee, accepted or failed, changes no
\* field of any other attendee's row, and scans of different attendees
\* running concurrently give every attendee the results its scans give when
\* run one after another.
C17_FrameAcrossAttendees ==
    [][FrameOthers /\ (\A s \in StudentIds : SequentialResults(s))']_vars

C17_Witness ==
    /\ req["r1"].pc = "ledger"
    /\ req["r2"].pc = "ledger"
    /\ req["r1"].student_id = 1
    /\ req["r2"].student_id = 2
    /\ req["r1"].action = "ENTRY"
    /\ req["r2"].action = "EXIT"
    /\ Len(toggleLog[1]) = 1
    /\ Len(toggleLog[2]) = 1
    /\ students[1].is_inside_event
    /\ ~students[2].is_inside_event
    /\ students[1].last_checkout_at = NULL
    /\ students[2].last_checkin_at = NULL

ServerSignedStall(tok) ==
    tok.fmt = "stall" /\ tok.sig = StallSign(ServerSecret, tok.stall_number)

C20_RejectStoresDecision ==
    \A q \in EventRequests :
        (eReq[q].pc = "done" /\ eReq[q].op = "reject") =>
            /\ eReq[q].status = 200 =>
                  /\ events[eReq[q].id].status = "REJECTED"
                  /\ events[eReq[q].id].admin_rejection_reason
                        = eReq[q].rejection_reason
                  /\ events[eReq[q].id].approved_by_admin_id = eReq[q].user
            /\ eReq[q].status = 400 =>
                  (eReq[q].rejection_reason = Missing
                     \/ Len(Trim(eReq[q].rejection_reason)) = 0)

\* the requests that target event e and have status st
DecisionsWith(e, st) ==
    {q \in EventRequests : eReq[q].pc = "done" /\ eReq[q].id = e
                              /\ eReq[q].status = st}

\* a step changes an event row only from PENDING_APPROVAL, and a decision on
\* an event that is not pending fails and changes nothing
DecideOnlyPending ==
    /\ \A e \in EventIds :
          events'[e] # events[e] => events[e].status = "PENDING_APPROVAL"
    /\ \A q \in EventRequests :
          (/\ eReq[q].pc = "update"
           /\ eReq'[q] # eReq[q]
           /\ eReq[q].id \in EventIds
           /\ events[eReq[q].id].status # "PENDING_APPROVAL")
             => /\ eReq'[q].pc = "done"
                /\ eReq'[q].status = 500
                /\ UNCHANGED <<events, event_permissions>>

\* at most one request gets past the UPDATE of an event and at most one
\* permission record exists for it; once every request is answered and no
\* query was lost, exactly one request on each targeted event was answered
\* success and the event has exactly one permission record
DecidedOnce ==
    \A e \in EventIds :
        LET perms == {p \in event_permissions : p.event_id = e}
            passed == {q \in EventRequests :
                          /\ eReq[q].id = e
                          /\ \/ eReq[q].pc = "permission"
                             \/ eReq[q].pc = "done" /\ eReq[q].status = 200}
            targeted == {q \in EventRequests :
                            eReq[q].id = e /\ eReq[q].pc # "idle"}
        IN /\ Cardinality(perms) <= 1
           /\ Cardinality(passed) <= 1
           /\ Cardinality(perms) = Cardinality(DecisionsWith(e, 200))
           /\ (/\ targeted # {}
               /\ \A q \in targeted :
                     /\ eReq[q].pc = "done"
                     /\ eReq[q].message # "Internal server error")
                 => /\ Cardinality(DecisionsWith(e, 200)) = 1
                    /\ Cardinality(perms) = 1
                    /\ events[e].status # "PENDING_APPROVAL"

C22_ActiveManagerNeverDeleted ==
    [][\A m \in ManagerIds :
          /\ (m \in event_managers /\ m \notin event_managers')
                => activeEvents(m) = 0
          /\ (mReq.id = m /\ mReq.pc = "delete" /\ mReq'.pc = "done"
                /\ activeEvents(m) > 0 /\ mReq'.status # 500)
                => mReq'.status = 400]_vars

\* C23: a request on a stall write route is inside createStall, updateStall
\* or deleteStall only with the role ADMIN, and only a request with the role
\* ADMIN creates, changes or deletes a row of stalls.
C23_StallWritesAdminOnly ==
    [][/\ wReq'.pc \in {"handler", "create"} => wReq'.role = "ADMIN"
       /\ stalls' # stalls => wReq.role = "ADMIN"]_vars

\* C24: every row Event.create inserted has status DRAFT, whatever
\* requires_approval was.
C24_CreatedAsDraft ==
    \A e \in NewEventIds : events[e] # NoEvent => events[e].status = "DRAFT"

\* C25: updateEvent never modifies an event that is ACTIVE, COMPLETED or
\* ARCHIVED at the moment of the write: no field of such an event other than
\* its status (which Event.updateStatus writes) changes in any step.
C25_LockedEventNeverUpdated ==
    [][\A e \in EventIds :
          events[e].status \in LockedStatuses
             => [events[e] EXCEPT !.status = events'[e].status] = events'[e]]_vars

\* C26: no event whose status is CANCELLED (here only Event.delete sets it)
\* has a CONFIRMED registration.
C26_CancelledHasNoConfirmed ==
    \A e \in EventIds :
        events[e].status = "CANCELLED" => confirmedRegistrations(e) = 0

\* the calls of completePayment for registration r that succeeded
PaidCalls(r) ==
    {i \in DOMAIN payCalls : payCalls[i].id = r /\ payCalls[i].result = "ok"}

\* the call a step appended to payCalls obeys the rule of completePayment
PaymentRule ==
    LET call == payCalls'[Len(payCalls')]
        row == RegistrationFindById(call.id)
    IN IF row.payment_status = "PENDING"
       THEN call.result = "ok" /\ PaidCalls(call.id) = {}
       ELSE /\ call.result =
                  "Registration not found or payment already completed"
            /\ event_registrations' = event_registrations

\* C27: completePayment succeeds only from payment_status PENDING and at most
\* once per registration; every other call (a second one, or the loser of two
\* concurrent ones) throws 'Registration not found or payment already
\* completed' and leaves every field of the registration as it was.
C27_PaymentCompletesOnce ==
    [][Len(payCalls') = Len(payCalls) + 1 => PaymentRule]_vars

\* a first call succeeded, later a second call with other payment data threw,
\* and the row still carries the first call's data and time
C27_Witness ==
    /\ Len(payCalls) >= 2
    /\ payCalls[1].result = "ok"
    /\ payCalls[2].id = payCalls[1].id
    /\ payCalls[2].paymentData # payCalls[1].paymentData
    /\ payCalls[2].result # "ok"
    /\ LET row == RegistrationFindById(payCalls[1].id)
       IN /\ row.payment_status = "COMPLETED"
          /\ row.razorpay_payment_id = payCalls[1].paymentData.razorpay_payment_id
          /\ row.razorpay_signature = payCalls[1].paymentData.razorpay_signature
          /\ row.payment_completed_at < now

\* C28: there is at most one feedback record per (student, stall) pair.
C28_OneFeedbackPerPair ==
    \A u \in StudentIds, s \in SeededStallIds : feedbacks[u][s] <= 1

\* C29: no student has more than 200 feedback records.
C29_FeedbackLimit ==
    \A u \in StudentIds : countByStudent(u) <= FeedbackLimit

\* C30: at most one ranking submission of a student takes effect: a student
\* has at most three ranking rows, at most one per stall and rank.
C30_RankingOnce ==
    \A u \in StudentIds :
        /\ \A s \in SeededStallIds, k \in 1..3 : rankings[u][s][k] <= 1
        /\ Cardinality({p \in SeededStallIds \X (1..3) :
                           rankings[u][p[1]][p[2]] > 0}) <= 3

\* C31: whenever no submitSchoolRanking request is in flight, every stall's
\* weighted_score equals rank_1_votes * 5 + rank_2_votes * 3 + rank_3_votes * 1
\* of its current vote counters.
C31_ScoreMatchesVotes ==
    (\A r \in RankingRequests : kReq[r].pc = "idle")
        => \A s \in SeededStallIds :
              ranked_stalls[s].weighted_score = PublishedScore(ranked_stalls[s])

====
